---- MODULE Spec2Model ----
(***************************************************************************)
(* A model of gluu-patch: the producer (create_patch: chunking, block      *)
(* files, bundle packing with reuse of the prior manifest's bundles), the  *)
(* planner (files to patch, missing blocks, bundle selection) and the      *)
(* consumer (Patcher.patch: fetch, atomic file writes, cleaner,            *)
(* changelog).                                                             *)
(*                                                                         *)
(* Byte strings are sequences of integers.  SHA-256 is modelled as a       *)
(* collision-free digest: the input prefixed by a digest mark (0) that no  *)
(* file byte carries.  A Zstandard frame is the raw bytes behind a magic   *)
(* byte (253) and a length byte; decompressing anything else, a truncated  *)
(* frame included, is an error.  The FastCDC chunker is modelled as a      *)
(* content-defined cut after every even byte.                              *)
(***************************************************************************)
EXTENDS Integers, Sequences, FiniteSets, TLC

(***************************************************************************)
(* Bounds of the model.                                                    *)
(***************************************************************************)
\* create_patch calls made in one run of the producer model
MaxCalls == 2

\* blocks and bundles of the manifests the planner is run on
MaxPlanBlocks == 4

MaxPlanBundles == 2

\* events of one behaviour of the consumer: apply processes started, changes of the
\* environment (publications, user edits, outages) and faults (I/O errors, crashes)
MaxEvents == 4

(***************************************************************************)
(* Byte strings, digests, compression, chunking.                           *)
(***************************************************************************)
RECURSIVE Concat(_)
\* b''.join(list) and ''.join(list); the list is halved to keep the evaluation shallow
Concat(ss) ==
    IF ss = <<>> THEN <<>>
    ELSE IF Len(ss) = 1 THEN ss[1]
    ELSE Concat(SubSeq(ss, 1, Len(ss) \div 2)) \o Concat(SubSeq(ss, Len(ss) \div 2 + 1, Len(ss)))

\* hashlib.sha256(x).hexdigest(), collision-free
Sha256(bytes) == <<0>> \o bytes

\* compressor.compress(raw)
ZstdCompress(raw) == <<253, Len(raw)>> \o raw

\* the bytes are one whole frame
IsFrame(bytes) == Len(bytes) >= 2 /\ bytes[1] = 253 /\ bytes[2] = Len(bytes) - 2

\* decompressor.decompress(frame); the caller checks IsFrame first
ZstdDecompress(frame) == SubSeq(frame, 3, Len(frame))

\* the positions after which the chunker cuts, in order: every even byte, and the
\* end of the file
CutPoints(content) ==
    SelectSeq([i \in 1..Len(content) |-> i],
              LAMBDA i : content[i] % 2 = 0 \/ i = Len(content))

\* util.extract_blocks / fastcdc(...): the chunks of a file, in order
FastCDC(content) ==
    LET cuts == CutPoints(content)
    IN [n \in 1..Len(cuts) |->
          SubSeq(content, IF n = 1 THEN 1 ELSE cuts[n - 1] + 1, cuts[n])]

(***************************************************************************)
(* Python dicts that keep insertion order: sequences of [k, v] entries.    *)
(***************************************************************************)
DictHas(d, key) == \E i \in 1..Len(d) : d[i].k = key

DictGet(d, key) == d[CHOOSE i \in 1..Len(d) : d[i].k = key].v

DictPut(d, key, val) ==
    IF DictHas(d, key)
    THEN [i \in 1..Len(d) |-> IF d[i].k = key THEN [k |-> key, v |-> val] ELSE d[i]]
    ELSE Append(d, [k |-> key, v |-> val])

DictDel(d, key) == SelectSeq(d, LAMBDA e : e.k # key)

DictKeys(d) == {d[i].k : i \in 1..Len(d)}

Restrict(f, S) == [x \in S \cap DOMAIN f |-> f[x]]

NoFiles == [p \in {} |-> <<>>]

(***************************************************************************)
(* The manifest (patchData.json).                                          *)
(***************************************************************************)
\* util.getPatchData on a missing or unreadable patchData.json
EmptyBuild == [compression |-> [enabled |-> FALSE], files |-> NoFiles, bundles |-> <<>>]

\* util.getPatchData(loc) for a local directory: a directory without a readable
\* patchData.json (disk.hasManifest false) yields the empty build
GetPatchData(disk) == IF disk.hasManifest THEN disk.manifest ELSE EmptyBuild

\* the hashes of a bundle's members, in order
MemberHashes(members) == [i \in 1..Len(members) |-> members[i].hash]

\* every block hash referenced by a file record of the manifest
FileHashes(m) ==
    UNION {{m.files[p].blocks[i] : i \in 1..Len(m.files[p].blocks)} : p \in DOMAIN m.files}

\* the places <<bundle, index>> of the manifest's bundle members
MemberPlaces(m) ==
    UNION {{<<b, i>> : i \in 1..Len(m.bundles[b].v)} : b \in 1..Len(m.bundles)}

BundleHashes(m) == {m.bundles[pl[1]].v[pl[2]].hash : pl \in MemberPlaces(m)}

PlacesOf(m, h) == {pl \in MemberPlaces(m) : m.bundles[pl[1]].v[pl[2]].hash = h}

(***************************************************************************)
(* BlockBuilder: class-level __data and __blockSet are shared by every     *)
(* instance of the process (st.data, st.blockSet).                         *)
(***************************************************************************)
\* self.__blockSet[block_hash] = block_data for every chunk in order: a key the dict
\* holds keeps its place and takes the chunk as its value, a new key is appended at
\* its first occurrence
PutBlocks(blockSet, chunks) ==
    LET Seen(h) == \E j \in 1..Len(chunks) : Sha256(chunks[j]) = h
        kept == [i \in 1..Len(blockSet) |->
                   IF Seen(blockSet[i].k)
                   THEN [k |-> blockSet[i].k,
                         v |-> chunks[CHOOSE j \in 1..Len(chunks) :
                                         Sha256(chunks[j]) = blockSet[i].k]]
                   ELSE blockSet[i]]
        tagged == [j \in 1..Len(chunks) |-> [j |-> j, c |-> chunks[j]]]
        first == SelectSeq(tagged, LAMBDA e :
                     /\ ~DictHas(blockSet, Sha256(e.c))
                     /\ \A j \in 1..(e.j - 1) : chunks[j] # e.c)
    IN kept \o [i \in 1..Len(first) |-> [k |-> Sha256(first[i].c), v |-> first[i].c]]

\* BlockBuilder.__processFile
ProcessFile(st, path, content) ==
    LET chunks == FastCDC(content)
        hashes == [i \in 1..Len(chunks) |-> Sha256(chunks[i])]
        fileData == [hash |-> Sha256(Concat(hashes)), blocks |-> hashes]
    IN [st EXCEPT !.blockSet = PutBlocks(st.blockSet, chunks),
                  !.data = (path :> fileData) @@ st.data]

RECURSIVE ProcessDir(_, _, _)
\* BlockBuilder.processDir: the files of the directory in the order os.walk lists them
ProcessDir(st, dir, order) ==
    IF order = <<>> THEN st
    ELSE ProcessDir(ProcessFile(st, Head(order), dir[Head(order)]), dir, Tail(order))

\* util.cleanup(path, data): remove the files whose name is not a key of data
Cleanup(files, keys) == Restrict(files, keys)

\* the block files written by writeBlockFiles, by name
BlockFilesOf(blockSet) ==
    [h \in DictKeys(blockSet) |-> DictGet(blockSet, h)]

\* BlockBuilder.writeBlockFiles
WriteBlockFiles(st, disk, compress) ==
    LET bs == [i \in 1..Len(st.blockSet) |->
                 [k |-> st.blockSet[i].k,
                  v |-> IF compress THEN ZstdCompress(st.blockSet[i].v)
                                    ELSE st.blockSet[i].v]]
    IN [st |-> [st EXCEPT !.blockSet = bs],
        disk |-> [disk EXCEPT
                    !.dictionary = disk.dictionary \/ compress,
                    !.blocks = Cleanup(BlockFilesOf(bs) @@ disk.blocks, DictKeys(bs))]]

(***************************************************************************)
(* BundleBuilder: class-level __data is shared by every instance           *)
(* (bb.data).  bb.blockSet is the very dict the BlockBuilder holds.        *)
(***************************************************************************)
RECURSIVE StrMembers(_, _)
\* str(bundleList): the members with their integer keys, in order
StrMembers(members, i) ==
    IF i > Len(members) THEN <<>>
    ELSE <<-1, i - 1, -2>> \o members[i].hash
            \o <<-3, members[i].length, -4, members[i].blockOffset>>
            \o StrMembers(members, i + 1)

\* BundleBuilder.getBundleId
GetBundleId(bundleList) == Sha256(StrMembers(bundleList, 1))

\* BundleBuilder.canMakeBundle
CanMakeBundle(blockSet, bundle) ==
    \A i \in 1..Len(bundle) : DictHas(blockSet, bundle[i].hash)

\* BundleBuilder.createBundle with writeBundle
CreateBundle(bb, bundleList, bundleData) ==
    LET id == GetBundleId(bundleList)
    IN [bb EXCEPT !.files = (id :> Concat(bundleData)) @@ bb.files,
                  !.data = DictPut(bb.data, id, bundleList)]

\* the members {hash, length, blockOffset} of a bundle holding these entries of
\* the block set, blockOffset being the running sum of the lengths
MembersOf(entries) ==
    [j \in 1..Len(entries) |->
        [hash |-> entries[j].k, length |-> Len(entries[j].v),
         blockOffset |-> Len(Concat([n \in 1..(j - 1) |-> entries[n].v]))]]

PayloadsOf(entries) == [j \in 1..Len(entries) |-> entries[j].v]

\* BundleBuilder.makeBundle: re-emit a bundle of the prior manifest from the block
\* set, deleting its blocks from the set; a hash the bundle lists twice is gone at
\* its second lookup (KeyError)
MakeBundle(bb, bundle) ==
    IF \E i, j \in 1..Len(bundle) : i < j /\ bundle[i].hash = bundle[j].hash
    THEN [bb EXCEPT !.err = TRUE]
    ELSE LET entries == [i \in 1..Len(bundle) |->
                           [k |-> bundle[i].hash, v |-> DictGet(bb.blockSet, bundle[i].hash)]]
             hashes == {bundle[i].hash : i \in 1..Len(bundle)}
         IN CreateBundle([bb EXCEPT !.blockSet = SelectSeq(bb.blockSet,
                                                    LAMBDA e : e.k \notin hashes)],
                         MembersOf(entries), PayloadsOf(entries))

RECURSIVE ReuseOldBundles(_, _, _)
\* buildBundles, first loop: the prior bundles whose blocks all survive
ReuseOldBundles(bb, old, i) ==
    IF i > Len(old) \/ bb.err THEN bb
    ELSE IF CanMakeBundle(bb.blockSet, old[i].v)
         THEN ReuseOldBundles(MakeBundle(bb, old[i].v), old, i + 1)
         ELSE ReuseOldBundles(bb, old, i + 1)

\* the index at which buildBundles closes a bundle (blocksProcessed == 59)
LastIndex == 59

RECURSIVE PackRemainingOneShort(_, _)
\* a faulty variant of PackRemaining: a bundle is closed one block early
PackRemainingOneShort(bb, start) ==
    IF start > Len(bb.blockSet) THEN bb
    ELSE LET end == IF start + LastIndex - 1 < Len(bb.blockSet) THEN start + LastIndex - 1
                    ELSE Len(bb.blockSet)
             entries == SubSeq(bb.blockSet, start, end)
         IN PackRemainingOneShort(
                CreateBundle(bb, MembersOf(entries), PayloadsOf(entries)), end + 1)

RECURSIVE PackRemaining(_, _)
\* buildBundles, second loop and the final partial bundle: the blocks left in the
\* set, in its order, a bundle being closed at index LastIndex
PackRemaining(bb, start) ==
    IF start > Len(bb.blockSet) THEN bb
    ELSE LET end == IF start + LastIndex < Len(bb.blockSet) THEN start + LastIndex
                    ELSE Len(bb.blockSet)
             entries == SubSeq(bb.blockSet, start, end)
         IN PackRemaining(CreateBundle(bb, MembersOf(entries), PayloadsOf(entries)), end + 1)

\* buildBundles, lines 84-91: the cleanup of the bundle directory and the table
\* returned, bb1 being the builder after the first loop and bb2 at the end of the
\* second; remaining is the block set that the first loop left, in its order, and
\* formed the bundles that the second loop made of it
BundlesBuilt(bb1, bb2) ==
    [blockSet |-> bb2.blockSet, data |-> bb2.data, err |-> bb2.err,
     files |-> Cleanup(bb2.files, DictKeys(bb2.data)),
     remaining |-> [i \in 1..Len(bb1.blockSet) |-> bb1.blockSet[i].k],
     formed |-> IF bb1.err THEN <<>>
                ELSE PackRemaining([bb1 EXCEPT !.data = <<>>], 1).data]

\* buildBundles, lines 67-83, on the builder that the first loop left
PackAfterReuse(bb1) == BundlesBuilt(bb1, IF bb1.err THEN bb1 ELSE PackRemaining(bb1, 1))

\* BundleBuilder.buildBundles
BuildBundles(blockSet, data, prior, files) ==
    PackAfterReuse(ReuseOldBundles([blockSet |-> blockSet, data |-> data,
                                    files |-> files, err |-> FALSE], prior.bundles, 1))

(***************************************************************************)
(* create_patch and write_patch_data.                                      *)
(***************************************************************************)
\* json.dumps(data) of write_patch_data: the members of the manifest in the order
\* of its keys
JsonDumps(data) == <<data.compression.enabled, data.files, data.bundles>>

\* sha256(text).hexdigest() of a serialized manifest, told by the text
Sha256Hex(text) == <<"sha256", text>>

\* the manifest and the version file that write_patch_data writes for data
ManifestWritten(disk, data) ==
    [disk EXCEPT !.hasManifest = TRUE,
                 !.manifest = data,
                 !.version = Sha256Hex(JsonDumps(data))]

\* create.write_patch_data
WritePatchData(disk, files, bundles, compress) ==
    ManifestWritten(disk, [compression |-> [enabled |-> compress],
                           files |-> files, bundles |-> bundles])

\* create_patch, lines 31-34, after buildBundles: an error of buildBundles ends the
\* call, else the manifest is written; st1 is the class-level state after
\* processDir, w the outcome of writeBlockFiles, prior the manifest loaded and bb
\* the outcome of buildBundles
PatchWritten(st1, w, prior, bb, compress) ==
    [ok |-> ~bb.err,
     st |-> [data |-> st1.data, blockSet |-> bb.blockSet, bundles |-> bb.data],
     disk |-> IF bb.err THEN [w.disk EXCEPT !.bundles = bb.files]
              ELSE WritePatchData([w.disk EXCEPT !.bundles = bb.files],
                                  st1.data, bb.data, compress),
     manifest |-> IF bb.err THEN EmptyBuild
                  ELSE [compression |-> [enabled |-> compress],
                        files |-> st1.data, bundles |-> bb.data],
     prior |-> prior, blockSet |-> DictKeys(w.st.blockSet),
     remaining |-> bb.remaining, formed |-> bb.formed]

\* create_patch, lines 30-31: the bundle builder on the block set and its run
BundlesOf(st1, w, prior, compress) ==
    PatchWritten(st1, w, prior,
                 BuildBundles(w.st.blockSet, st1.bundles, prior, w.disk.bundles), compress)

\* create_patch, line 29: the prior manifest is read once the blocks are written
PriorLoaded(st1, w, priorIsOut, priorDisk, compress) ==
    BundlesOf(st1, w, GetPatchData(IF priorIsOut THEN w.disk ELSE priorDisk), compress)

\* create_patch, lines 18-27, on the class-level state st1 that processDir has left
PatchOf(st1, out, priorIsOut, priorDisk, compress) ==
    IF DOMAIN st1.data = {} \/ Len(st1.blockSet) = 0
    THEN [ok |-> FALSE, st |-> st1, disk |-> out, manifest |-> EmptyBuild,
          prior |-> EmptyBuild, blockSet |-> {}, remaining |-> <<>>, formed |-> <<>>]
    ELSE PriorLoaded(st1, WriteBlockFiles(st1, out, compress), priorIsOut, priorDisk,
                     compress)

\* create.create_patch(directory, output, patch_data_path, compress): st is the
\* process's class-level state, out the output directory, priorDisk the directory
\* patch_data_path (or, without it, output) names, as it is when the call starts
CreatePatch(st, out, priorIsOut, priorDisk, dir, order, compress) ==
    PatchOf(ProcessDir(st, dir, order), out, priorIsOut, priorDisk, compress)

\* zstd.ZstdCompressor(level=int(level), ...) in util.get_compressor: the library
\* takes the levels up to 22, 10 among them, and raises ValueError above
LevelAccepted(level) == level <= 22

\* create_patch from line 18 on with its compression_level: when it compresses,
\* writeBlockFiles has the dictionary loaded or trained and written and then makes
\* the compressor, which raises ValueError on a level the library does not take
PatchAtLevelOf(st1, out, priorIsOut, priorDisk, compress, compression_level) ==
    IF /\ compress
       /\ ~(DOMAIN st1.data = {} \/ Len(st1.blockSet) = 0)
       /\ ~LevelAccepted(compression_level)
    THEN [ok |-> FALSE, st |-> st1, disk |-> [out EXCEPT !.dictionary = TRUE],
          manifest |-> EmptyBuild, prior |-> EmptyBuild, blockSet |-> {},
          remaining |-> <<>>, formed |-> <<>>]
    ELSE PatchOf(st1, out, priorIsOut, priorDisk, compress)

\* create_patch with its compression_level
CreatePatchAtLevel(st, out, priorIsOut, priorDisk, dir, order, compress, compression_level) ==
    PatchAtLevelOf(ProcessDir(st, dir, order), out, priorIsOut, priorDisk, compress,
                   compression_level)

\* the class-level state of a fresh interpreter
FreshProcess == [data |-> NoFiles, blockSet |-> <<>>, bundles |-> <<>>]

\* an output directory nothing was written to
EmptyDisk == [blocks |-> NoFiles, bundles |-> NoFiles, hasManifest |-> FALSE,
              manifest |-> EmptyBuild, dictionary |-> FALSE, version |-> <<>>]

(***************************************************************************)
(* The command line: gluu create (makePatch).                              *)
(***************************************************************************)
\* gluu.makePatch, lines 68-71, r being the outcome of create_patch:
\* write_patch_data once more without the compress argument; a ValueError ends the
\* command before anything more is written
WrittenAgain(r) ==
    IF r.ok THEN WritePatchData(r.disk, r.manifest.files, r.manifest.bundles, FALSE)
    ELSE r.disk

\* gluu.makePatch in a fresh interpreter with --output out (and no --patch-data):
\* create_patch, then write_patch_data once more without the compress argument; a
\* ValueError ends the command before anything is written
MakePatch(out, dir, order, compress) ==
    WrittenAgain(CreatePatch(FreshProcess, out, TRUE, out, dir, order, compress))

(***************************************************************************)
(* PatchData: the planner.                                                 *)
(***************************************************************************)
\* the paths of the model in the order a sorted manifest lists them
PathOrder == <<"f1", "f2", "tmp1", "tmp2", "tmp3">>

SortedPaths(S) == SelectSeq(PathOrder, LAMBDA p : p \in S)

\* os.path.getmtime: st_mtime, the modification time in nanoseconds turned into a
\* float of seconds, which tells times of this era apart to about 238 ns only.  The
\* mtime of a file of the model counts half-steps of that float
GetMtime(file) == file.mtime \div 2

\* the time stamp the kernel gives the next write: its clock is coarser than the
\* float, so the stamps of two writes are equal or differ as floats
NextStamp(now) == now + 2

\* ChangeLog._get_file_metadata: size and mtime as strings
GetFileMetadata(file) ==
    [size |-> ToString(Len(file.data)), lastMod |-> ToString(GetMtime(file))]

\* ".DS_Store" in filename, of the paths of the model
HasDSStore(p) == p \in {".DS_Store", "d/.DS_Store"}

\* ChangeLog.is_valid
IsValid(cl, inst, p) ==
    /\ p \in DOMAIN inst
    /\ p \in DOMAIN cl
    /\ cl[p] = GetFileMetadata(inst[p])

\* ChangeLog.validate_current_installation
ValidateCurrentInstallation(cl, inst) ==
    \A p \in DOMAIN cl : HasDSStore(p) \/ IsValid(cl, inst, p)

\* Patcher._get_local_file_hashes: BlockGenerator._hash_file of every installed file,
\* the SHA-256 of its bytes
GetLocalFileHashes(inst) == [p \in DOMAIN inst |-> Sha256(inst[p].data)]

\* PatchData.get_files_to_patch
GetFilesToPatch(new_build, local_files, cl, inst) ==
    SelectSeq(SortedPaths(DOMAIN new_build.files), LAMBDA p :
        \/ p \notin DOMAIN local_files
        \/ new_build.files[p].hash # local_files[p]
        \/ ~IsValid(cl, inst, p))

\* the chunks of the files fastcdc can open under the names of files_to_patch
ScannedChunks(files_to_patch, cwdFiles) ==
    UNION {{FastCDC(cwdFiles[files_to_patch[i]].data)[n] :
              n \in 1..Len(FastCDC(cwdFiles[files_to_patch[i]].data))} :
           i \in {j \in 1..Len(files_to_patch) : files_to_patch[j] \in DOMAIN cwdFiles}}

\* BlockGenerator.scan: files_to_patch holds manifest keys, which fastcdc opens
\* relative to the working directory of the process (cwdFiles)
Scan(files_to_patch, cwdFiles) ==
    LET chunks == ScannedChunks(files_to_patch, cwdFiles)
    IN [h \in {Sha256(c) : c \in chunks} |-> CHOOSE c \in chunks : Sha256(c) = h]

\* PatchData.get_missing_blocks
GetMissingBlocks(files_to_patch, new_build, local_blocks) ==
    UNION {{new_build.files[files_to_patch[i]].blocks[n] :
              n \in 1..Len(new_build.files[files_to_patch[i]].blocks)} :
           i \in 1..Len(files_to_patch)} \ DOMAIN local_blocks

\* PatchData._analyze_bundles: per bundle with members, its size and its needed blocks
AnalyzeBundles(new_build, missing_blocks) ==
    LET info == [b \in 1..Len(new_build.bundles) |->
                   [k |-> new_build.bundles[b].k,
                    v |-> [size |-> Len(new_build.bundles[b].v),
                           blocksNeeded |-> SelectSeq(MemberHashes(new_build.bundles[b].v),
                                                      LAMBDA h : h \in missing_blocks)]]]
    IN SelectSeq(info, LAMBDA e : e.v.size > 0)

\* a faulty variant of WorthBundle: a bundle is fetched only above one half
WorthBundleAboveHalf(info) == 2 * Len(info.blocksNeeded) > info.size

\* info["percentNeeded"] >= 0.5, percentNeeded being len(blocks_needed) / bundle_size
WorthBundle(info) == 2 * Len(info.blocksNeeded) >= info.size

\* a faulty variant of BundlesToDownload: the needed members of the chosen bundles
\* stay in the set of single blocks
BundlesToDownloadKeepingAll(bundle_info, missing_blocks) ==
    LET chosen == SelectSeq(bundle_info, LAMBDA e : WorthBundle(e.v))
    IN [bundles |-> [i \in 1..Len(chosen) |->
                       [k |-> chosen[i].k, v |-> chosen[i].v.blocksNeeded]],
        blocks |-> missing_blocks]

\* PatchData._bundles_to_download
BundlesToDownload(bundle_info, missing_blocks) ==
    LET chosen == SelectSeq(bundle_info, LAMBDA e : WorthBundle(e.v))
    IN [bundles |-> [i \in 1..Len(chosen) |->
                       [k |-> chosen[i].k, v |-> chosen[i].v.blocksNeeded]],
        blocks |-> missing_blocks \
                     UNION {{chosen[i].v.blocksNeeded[n] :
                               n \in 1..Len(chosen[i].v.blocksNeeded)} : i \in 1..Len(chosen)}]

\* PatchData.find_bundles_and_blocks_to_fetch(..., return_mapping=True)
FindBundlesAndBlocksToFetch(new_build, missing_blocks) ==
    BundlesToDownload(AnalyzeBundles(new_build, missing_blocks), missing_blocks)

(***************************************************************************)
(* Downloader (a patch directory on the local filesystem).                  *)
(***************************************************************************)
\* Downloader.__init__: bundle_index[bundle][hash] = (blockOffset, length); a later
\* member of the same hash replaces an earlier one
BundleIndex(new_build, bundle_id, block_hash) ==
    LET members == DictGet(new_build.bundles, bundle_id)
        at == CHOOSE i \in 1..Len(members) :
                 /\ members[i].hash = block_hash
                 /\ \A j \in (i + 1)..Len(members) : members[j].hash # block_hash
    IN [offset |-> members[at].blockOffset, length |-> members[at].length]

\* Downloader._get_block_info finds the block in the index
HasBlockInfo(new_build, bundle_id, block_hash) ==
    /\ DictHas(new_build.bundles, bundle_id)
    /\ \E i \in 1..Len(DictGet(new_build.bundles, bundle_id)) :
         DictGet(new_build.bundles, bundle_id)[i].hash = block_hash

\* bundle_data[offset:offset + length]
SliceBytes(bytes, offset, length) ==
    SubSeq(bytes, offset + 1, IF offset + length < Len(bytes) THEN offset + length ELSE Len(bytes))

\* Downloader._decompress_if_needed raises on bytes that are no frame
CanDecompress(use_compression, data) == use_compression => IsFrame(data)

\* Downloader._decompress_if_needed
DecompressIfNeeded(use_compression, data) ==
    IF use_compression THEN ZstdDecompress(data) ELSE data

\* the blocks _process_bundle_sync takes from one bundle: needed, not yet in
\* local_blocks, and indexed
TakenFrom(new_build, local_blocks, entry) ==
    {entry.v[n] : n \in {i \in 1..Len(entry.v) :
        /\ entry.v[i] \notin DOMAIN local_blocks
        /\ HasBlockInfo(new_build, entry.k, entry.v[i])}}

\* the slice of the bundle file that holds a block
BundleSlice(repo, new_build, bundle_id, block_hash) ==
    SliceBytes(repo.bundles[bundle_id],
               BundleIndex(new_build, bundle_id, block_hash).offset,
               BundleIndex(new_build, bundle_id, block_hash).length)

\* Downloader._fetch_local reads every file it asks for and decodes every block
FetchLocalSucceeds(repo, new_build, use_compression, plan, local_blocks) ==
    /\ \A i \in 1..Len(plan.bundles) :
         /\ plan.bundles[i].k \in DOMAIN repo.bundles
         /\ \A h \in TakenFrom(new_build, local_blocks, plan.bundles[i]) :
              CanDecompress(use_compression, BundleSlice(repo, new_build, plan.bundles[i].k, h))
    /\ \A h \in plan.blocks :
         h \in DOMAIN repo.blocks /\ CanDecompress(use_compression, repo.blocks[h])

\* Downloader._fetch_local: local_blocks after the bundles, then the single blocks
\* (a block already taken from an earlier bundle is skipped in a later one)
FetchLocal(repo, new_build, use_compression, plan, local_blocks) ==
    LET source(h) == CHOOSE i \in 1..Len(plan.bundles) :
                        /\ h \in TakenFrom(new_build, local_blocks, plan.bundles[i])
                        /\ \A j \in 1..(i - 1) :
                             h \notin TakenFrom(new_build, local_blocks, plan.bundles[j])
        taken == UNION {TakenFrom(new_build, local_blocks, plan.bundles[i]) :
                          i \in 1..Len(plan.bundles)}
        fromBundles == [h \in taken |->
                          DecompressIfNeeded(use_compression,
                              BundleSlice(repo, new_build, plan.bundles[source(h)].k, h))]
        fromBlocks == [h \in plan.blocks |-> DecompressIfNeeded(use_compression, repo.blocks[h])]
    IN fromBlocks @@ fromBundles @@ local_blocks

(***************************************************************************)
(* Downloader: the remote fetch.                                           *)
(***************************************************************************)
\* bytes.rstrip(b'\r\n'): the trailing bytes that are CR (13) or LF (10) are dropped
RStrip(bytes) ==
    LET keep == {n \in 0..Len(bytes) : \A i \in (n + 1)..Len(bytes) : bytes[i] \in {13, 10}}
    IN SubSeq(bytes, 1, CHOOSE n \in keep : \A m \in keep : n <= m)

\* Downloader._create_range_requests: one range per needed block the bundle index
\* has, sorted by start (the members of a bundle are listed by offset)
CreateRangeRequests(new_build, bundle_id, needed_blocks) ==
    IF ~DictHas(new_build.bundles, bundle_id) THEN <<>>
    ELSE LET wanted == SelectSeq(DictGet(new_build.bundles, bundle_id), LAMBDA m :
                           \E n \in 1..Len(needed_blocks) : needed_blocks[n] = m.hash)
         IN [i \in 1..Len(wanted) |->
               [start |-> wanted[i].blockOffset,
                end |-> wanted[i].blockOffset + wanted[i].length - 1,
                block_hash |-> wanted[i].hash]]

\* the hashes of a list of ranges
RangeHashes(ranges) == [i \in 1..Len(ranges) |-> ranges[i].block_hash]

\* a part of a multipart/byteranges body between two boundary lines, as
\* _process_multipart_response sees it: the Content-Range header if there is one,
\* and the bytes after the empty line, which are the payload and the CRLF that ends it
BodyPart(has_content_range, start, end, payload) ==
    [content_range |-> IF has_content_range THEN <<start, end>> ELSE <<>>,
     rest |-> payload \o <<13, 10>>]

\* the loop of Downloader._process_multipart_response from part n on; ok is FALSE
\* when decompressing a content raises
RECURSIVE ProcessMultipartResponse(_, _, _, _, _)
ProcessMultipartResponse(parts, n, ranges, use_compression, local_blocks) ==
    IF n > Len(parts) THEN [ok |-> TRUE, pool |-> local_blocks]
    ELSE LET content == RStrip(parts[n].rest)
             matching == {i \in 1..Len(ranges) :
                             parts[n].content_range = <<ranges[i].start, ranges[i].end>>}
             first == CHOOSE i \in matching : \A j \in matching : i <= j
         IN IF parts[n].content_range = <<>> \/ matching = {}
            THEN ProcessMultipartResponse(parts, n + 1, ranges, use_compression, local_blocks)
            ELSE IF ~CanDecompress(use_compression, content)
            THEN [ok |-> FALSE, pool |-> local_blocks]
            ELSE ProcessMultipartResponse(parts, n + 1, ranges, use_compression,
                     (ranges[first].block_hash :> DecompressIfNeeded(use_compression, content))
                        @@ local_blocks)

\* Downloader._process_single_range
ProcessSingleRange(data, range_req, use_compression, local_blocks) ==
    IF ~CanDecompress(use_compression, data)
    THEN [ok |-> FALSE, pool |-> local_blocks]
    ELSE [ok |-> TRUE,
          pool |-> (range_req.block_hash :> DecompressIfNeeded(use_compression, data))
                      @@ local_blocks]

\* the slice of bundle_data the index gives for a block
IndexedSlice(new_build, bundle_id, bundle_data, block_hash) ==
    SliceBytes(bundle_data, BundleIndex(new_build, bundle_id, block_hash).offset,
               BundleIndex(new_build, bundle_id, block_hash).length)

\* a faulty variant of ProcessBundle: only the first needed block is taken
ProcessBundleFirstOnly(new_build, bundle_id, bundle_data, needed_blocks, use_compression, local_blocks) ==
    ProcessSingleRange(IndexedSlice(new_build, bundle_id, bundle_data, needed_blocks[1]),
                       [block_hash |-> needed_blocks[1]], use_compression, local_blocks)

\* Downloader._process_bundle: the needed blocks that are not in local_blocks and
\* that the index has are sliced out of the bundle and decompressed
ProcessBundle(new_build, bundle_id, bundle_data, needed_blocks, use_compression, local_blocks) ==
    LET taken == {needed_blocks[n] : n \in {i \in 1..Len(needed_blocks) :
                     /\ needed_blocks[i] \notin DOMAIN local_blocks
                     /\ HasBlockInfo(new_build, bundle_id, needed_blocks[i])}}
    IN IF \E h \in taken :
             ~CanDecompress(use_compression,
                            IndexedSlice(new_build, bundle_id, bundle_data, h))
       THEN [ok |-> FALSE, pool |-> local_blocks]
       ELSE [ok |-> TRUE,
             pool |-> [h \in taken |->
                         DecompressIfNeeded(use_compression,
                             IndexedSlice(new_build, bundle_id, bundle_data, h))]
                        @@ local_blocks]

(***************************************************************************)
(* State.  proc, disk, last, ncalls: the producer.  new_build,              *)
(* missing_blocks, plan: one call of the planner.  repo, avail, install,    *)
(* changelog, clock, patcher, before, budget: a published patch directory,  *)
(* an installation and the apply processes that run on it.  tree, cleaner:  *)
(* an install tree with its directories and one run of the cleaner on it.   *)
(* net: the requests of one fetch from an http server.  scanner: one local  *)
(* scan.  trainer: the dictionary file and the calls that load or train it. *)
(***************************************************************************)
VARIABLES proc, disk, last, ncalls,
          new_build, missing_blocks, plan,
          repo, avail, install, changelog, clock, patcher, before, budget,
          tree, cleaner, net, scanner, trainer

prodVars == <<proc, disk, last, ncalls>>

planVars == <<new_build, missing_blocks, plan>>

applyVars == <<repo, avail, install, changelog, clock, patcher, before, budget>>

cleanVars == <<tree, cleaner>>

netVars == <<net, scanner, trainer>>

vars == <<proc, disk, last, ncalls, new_build, missing_blocks, plan,
          repo, avail, install, changelog, clock, patcher, before, budget,
          tree, cleaner, net, scanner, trainer>>

\* the scanner is not running
NoScanner ==
    [pc |-> "idle", files_to_patch |-> <<>>, cwd |-> NoFiles, unreadable |-> {},
     pending |-> {}, raised |-> {}, blocks |-> NoFiles]

\* no dictionary file, and no dictionary
NoDict == [exists |-> FALSE, trained_on |-> <<>>]

\* no call has loaded or trained a dictionary
NoTrainer ==
    [pc |-> "idle", file |-> NoDict, uncompressed_block_data |-> <<>>,
     before |-> NoDict, compress |-> FALSE, regenDict |-> FALSE,
     dict_data |-> NoDict, trained |-> FALSE, calls |-> 0]

\* the cleaner, fetch, scanner and trainer variables of a behaviour that uses none
\* of them
PartsUnused ==
    /\ tree = [files |-> {}, dirs |-> {}]
    /\ cleaner = [pc |-> "idle"]
    /\ net = [pc |-> "idle"] /\ scanner = NoScanner /\ trainer = NoTrainer

\* no planner call
NoPlan == [done |-> FALSE, bundles |-> <<>>, blocks |-> {}]

\* the planner variables of a behaviour that plans nothing
PlanUnused ==
    /\ new_build = EmptyBuild
    /\ missing_blocks = {}
    /\ plan = NoPlan

\* no apply process
NoPatcher ==
    [pc |-> "idle", new_build |-> EmptyBuild, compression |-> FALSE,
     files_to_patch |-> <<>>, local_blocks |-> NoFiles,
     bundles |-> <<>>, blocks_to_download |-> {},
     file |-> 0, block |-> 0, temp_path |-> "", change_log |-> NoFiles,
     files_to_process |-> {}, renamed |-> {}, cleanerErrors |-> FALSE,
     unreadable |-> FALSE, fetched |-> FALSE, repeat |-> FALSE, faulted |-> FALSE]

\* the consumer variables of a behaviour that applies nothing
ApplyUnused ==
    /\ repo = [disk |-> EmptyDisk, source |-> NoFiles, compress |-> FALSE, via |-> "cli"]
    /\ avail = "ok"
    /\ install = NoFiles
    /\ changelog = NoFiles
    /\ clock = 0
    /\ patcher = NoPatcher
    /\ before = [install |-> NoFiles, changelog |-> NoFiles]
    /\ budget = 0

(***************************************************************************)
(* The producer: create_patch calls of one or several processes on source  *)
(* directories, writing to one output directory that is also the place of  *)
(* the prior manifest (patch_data_path left out, or naming the output).    *)
(***************************************************************************)

\* a file of 61 one-byte chunks
BigFile == [i \in 1..61 |-> 2 * i]

\* the source directories of the model
SourceDirs ==
    { ("f1" :> <<2, 4>>),
      ("f1" :> <<2>>) @@ ("f2" :> <<1, 2, 4>>),
      ("f2" :> <<6, 2>>),
      ("f1" :> BigFile),
      NoFiles }

\* the orders in which os.walk may list the files of a directory
WalkOrders(dir) ==
    {o \in UNION {[1..n -> DOMAIN dir] : n \in {Cardinality(DOMAIN dir)}} :
        \A i, j \in DOMAIN o : i # j => o[i] # o[j]}

NoCall == [ok |-> FALSE, manifest |-> EmptyBuild, prior |-> EmptyBuild,
           blockSet |-> {}, compress |-> FALSE, fresh |-> TRUE, empty |-> TRUE,
           level |-> 5, changed |-> FALSE, remaining |-> <<>>, formed |-> <<>>,
           dir |-> NoFiles]

InitCreate ==
    /\ proc = FreshProcess
    /\ disk = EmptyDisk
    /\ last = NoCall
    /\ ncalls = 0
    /\ PlanUnused
    /\ ApplyUnused
    /\ PartsUnused

\* the compression levels a call is given: the default, 10, and one above the
\* levels of zstd
CompressionLevels == {5, 10, 23}

\* one call of create_patch(directory, output, patch_data_path, compress=...,
\* compression_level=...); last.changed says that it wrote to or deleted from the
\* output directory, last.dir is the source directory it was given
CreatePatchCall ==
    /\ ncalls < MaxCalls
    /\ \E dir \in SourceDirs, compress \in BOOLEAN :
         \E order \in WalkOrders(dir),
            level \in IF compress THEN CompressionLevels ELSE {5} :
           \E r \in {CreatePatchAtLevel(proc, disk, TRUE, disk, dir, order, compress, level)} :
              /\ proc' = r.st
              /\ disk' = r.disk
              /\ last' = [ok |-> r.ok, manifest |-> r.manifest, prior |-> r.prior,
                          blockSet |-> r.blockSet, compress |-> compress,
                          fresh |-> (proc = FreshProcess), empty |-> (dir = NoFiles),
                          level |-> level, changed |-> (r.disk # disk),
                          remaining |-> r.remaining, formed |-> r.formed,
                          dir |-> dir]
    /\ ncalls' = ncalls + 1
    /\ UNCHANGED <<planVars, applyVars, cleanVars, netVars>>

\* the interpreter exits and a new one starts: the class-level state is gone
NewProcess ==
    /\ proc # FreshProcess
    /\ proc' = FreshProcess
    /\ UNCHANGED <<disk, last, ncalls, planVars, applyVars, cleanVars, netVars>>

NextCreate == CreatePatchCall \/ NewProcess

SpecCreate == InitCreate /\ [][NextCreate]_vars

(***************************************************************************)
(* The planner on its own: find_bundles_and_blocks_to_fetch for manifests   *)
(* of up to MaxPlanBundles bundles over MaxPlanBlocks blocks (a block may   *)
(* be in several bundles, a bundle may be empty) and every set of missing   *)
(* blocks.                                                                 *)
(***************************************************************************)
PlanBlocks == 1..MaxPlanBlocks

\* the bundle create_patch makes of the one-byte blocks S, in ascending order
PlanBundle(S) ==
    LET order == SelectSeq([n \in 1..MaxPlanBlocks |-> n], LAMBDA n : n \in S)
        members == MembersOf([i \in 1..Len(order) |-> [k |-> Sha256(<<order[i]>>), v |-> <<order[i]>>]])
    IN [k |-> GetBundleId(members), v |-> members]

\* lists of distinct bundles (the keys of a JSON object are distinct)
PlanBundleLists ==
    UNION {{q \in [1..n -> SUBSET PlanBlocks] : \A i, j \in 1..n : i # j => q[i] # q[j]} :
           n \in 0..MaxPlanBundles}

InitPlan ==
    /\ \E q \in PlanBundleLists :
         new_build = [compression |-> [enabled |-> FALSE], files |-> NoFiles,
                      bundles |-> [i \in 1..Len(q) |-> PlanBundle(q[i])]]
    /\ missing_blocks \in SUBSET {Sha256(<<n>>) : n \in PlanBlocks}
    /\ plan = NoPlan
    /\ proc = FreshProcess /\ disk = EmptyDisk /\ last = NoCall /\ ncalls = 0
    /\ ApplyUnused
    /\ PartsUnused

\* PatchData.find_bundles_and_blocks_to_fetch(new_build, missing_blocks, ...)
FindPlan ==
    /\ ~plan.done
    /\ \E r \in {FindBundlesAndBlocksToFetch(new_build, missing_blocks)} :
         plan' = [done |-> TRUE, bundles |-> r.bundles, blocks |-> r.blocks]
    /\ UNCHANGED <<new_build, missing_blocks, prodVars, applyVars, cleanVars, netVars>>

NextPlan == FindPlan

SpecPlan == InitPlan /\ [][NextPlan]_vars

(***************************************************************************)
(* The consumer: apply processes (Patcher.patch, one step per file-system   *)
(* operation) on one installation, against a patch directory that is        *)
(* republished, with users editing the installation between the runs.  The  *)
(* patch data does not change while an apply process runs.                  *)
(***************************************************************************)
\* the source trees that are published
ApplySources ==
    { ("f1" :> <<2, 4>>),
      ("f1" :> <<2>>) @@ ("f2" :> <<1, 2, 4>>) }

\* the names tempfile.mkstemp gives out
TempNames == {"tmp1", "tmp2", "tmp3"}

\* what a user writes into a file of the installation
UserData == {<<2>>}

\* gluu create (via = "cli"), or create_patch called as a library function, in a
\* fresh process with the patch directory as output and as prior
Published(old, dir, order, compress, via) ==
    IF via = "cli"
    THEN MakePatch(old, dir, order, compress)
    ELSE CreatePatch(FreshProcess, old, TRUE, old, dir, order, compress).disk

InitApply ==
    /\ \E dir \in ApplySources, compress \in BOOLEAN, via \in {"cli", "api"} :
         \E order \in WalkOrders(dir) :
            /\ compress \/ via = "cli"
            /\ repo = [disk |-> Published(EmptyDisk, dir, order, compress, via),
                       source |-> dir, compress |-> compress, via |-> via]
    /\ avail = "ok"
    /\ install = NoFiles
    /\ changelog = NoFiles
    /\ clock = 0
    /\ patcher = NoPatcher
    /\ before = [install |-> NoFiles, changelog |-> NoFiles]
    /\ budget = 0
    /\ proc = FreshProcess /\ disk = EmptyDisk /\ last = NoCall /\ ncalls = 0
    /\ PlanUnused
    /\ PartsUnused

\* no apply process is running
Resting == patcher.pc \in {"idle", "done", "failed", "crashed", "aborted"}

\* a change of the environment between two runs
Change ==
    /\ Resting
    /\ budget < MaxEvents
    /\ budget' = budget + 1
    /\ patcher' = NoPatcher
    /\ UNCHANGED <<before, prodVars, planVars, cleanVars, netVars>>

\* a new version is published into the patch directory
Publish ==
    /\ Change
    /\ \E dir \in ApplySources, compress \in BOOLEAN, via \in {"cli", "api"} :
         \E order \in WalkOrders(dir) :
            /\ compress \/ via = "cli"
            /\ repo' = [disk |-> Published(repo.disk, dir, order, compress, via),
                        source |-> dir, compress |-> compress, via |-> via]
    /\ UNCHANGED <<avail, install, changelog, clock>>

\* patchData.json becomes unreachable or missing ("down"), is served as bytes that
\* are no JSON by an http server ("garbled"), or is back ("ok")
SetAvail ==
    /\ Change
    /\ avail' \in {"ok", "down", "garbled"} \ {avail}
    /\ UNCHANGED <<repo, install, changelog, clock>>

\* a user writes a file of the installation
UserWrite ==
    /\ Change
    /\ \E p \in {"f1", "f2"}, data \in UserData :
         install' = (p :> [data |-> data, mtime |-> NextStamp(clock)]) @@ install
    /\ clock' = NextStamp(clock)
    /\ UNCHANGED <<repo, avail, changelog>>

\* a user deletes a file of the installation
UserDelete ==
    /\ Change
    /\ \E p \in DOMAIN install : install' = Restrict(install, DOMAIN install \ {p})
    /\ UNCHANGED <<repo, avail, changelog, clock>>

\* the apply process is at one of its steps
Running == patcher.pc \in {"fetch", "mkstemp", "write", "remove", "replace", "clean", "save"}

\* steps of the apply process leave these alone
ApplyFrame == UNCHANGED <<repo, avail, before, prodVars, planVars, cleanVars, netVars>>

\* Cleaner.run starts: os.walk lists the files of the install tree
EnterCleaner(p, inst) == [p EXCEPT !.pc = "clean", !.files_to_process = DOMAIN inst]

\* the apply that starts follows a completed apply of the same manifest with
\* nothing changed in between: the installation is the files of the manifest, each
\* with the metadata the changelog of that apply recorded
Repeats(build) ==
    /\ patcher.pc = "done"
    /\ ~patcher.unreadable
    /\ ~patcher.cleanerErrors
    /\ avail = "ok"
    /\ build = patcher.new_build
    /\ DOMAIN install = DOMAIN build.files
    /\ \A p \in DOMAIN install :
          p \in DOMAIN changelog /\ changelog[p] = GetFileMetadata(install[p])

\* a faulty variant of NextFile: the cleaner starts before the files are written
NextFileCleanEarly(p, done, inst) == EnterCleaner(p, inst)

\* FilePatcher.apply: the loop over files_to_patch, after file number done
NextFile(p, done, inst) ==
    IF done < Len(p.files_to_patch)
    THEN [p EXCEPT !.pc = "mkstemp", !.file = done + 1]
    ELSE EnterCleaner(p, inst)

\* Patcher.__init__ and the planning half of Patcher.patch, in a process whose
\* working directory is the install directory or another one.  getPatchData gives
\* the empty manifest when patchData.json cannot be read; json.loads of an http
\* body that is no JSON raises, and a missing dictionary ends the process
StartApply ==
    /\ Resting
    /\ budget < MaxEvents
    /\ budget' = budget + 1
    /\ before' = [install |-> install, changelog |-> changelog]
    /\ \E cwd \in {"install", "elsewhere"} :
         \E build \in {IF avail = "ok" THEN GetPatchData(repo.disk) ELSE EmptyBuild} :
            IF avail = "garbled" \/ (build.compression.enabled /\ ~repo.disk.dictionary)
            THEN patcher' = [NoPatcher EXCEPT !.pc = "aborted", !.unreadable = (avail # "ok"),
                                              !.repeat = Repeats(build)]
            ELSE \E files \in {GetFilesToPatch(build, GetLocalFileHashes(install),
                                               changelog, install)} :
                   \E pool \in {Scan(files, IF cwd = "install" THEN install ELSE NoFiles)} :
                      \E r \in {FindBundlesAndBlocksToFetch(build,
                                    GetMissingBlocks(files, build, pool))} :
                         patcher' = [NoPatcher EXCEPT
                                        !.pc = "fetch",
                                        !.new_build = build,
                                        !.compression = build.compression.enabled,
                                        !.files_to_patch = files,
                                        !.local_blocks = pool,
                                        !.bundles = r.bundles,
                                        !.blocks_to_download = r.blocks,
                                        !.change_log = changelog,
                                        !.unreadable = (avail # "ok"),
                                        !.repeat = Repeats(build)]
    /\ UNCHANGED <<repo, avail, install, changelog, clock, prodVars, planVars,
                   cleanVars, netVars>>

\* Downloader.fetch: a file that is missing or a block that does not decode raises
Fetch ==
    /\ patcher.pc = "fetch"
    /\ LET fetchPlan == [bundles |-> patcher.bundles, blocks |-> patcher.blocks_to_download]
       IN IF FetchLocalSucceeds(repo.disk, patcher.new_build, patcher.compression,
                                fetchPlan, patcher.local_blocks)
          THEN patcher' = NextFile([patcher EXCEPT
                                       !.fetched = TRUE,
                                       !.local_blocks =
                                           FetchLocal(repo.disk, patcher.new_build,
                                                      patcher.compression, fetchPlan,
                                                      patcher.local_blocks)],
                                   0, install)
          ELSE patcher' = [patcher EXCEPT !.pc = "failed"]
    /\ UNCHANGED <<install, changelog, clock, budget>>
    /\ ApplyFrame

\* a read of the patch directory fails
FetchError ==
    /\ patcher.pc = "fetch"
    /\ budget < MaxEvents
    /\ budget' = budget + 1
    /\ patcher' = [patcher EXCEPT !.pc = "failed", !.faulted = TRUE]
    /\ UNCHANGED <<install, changelog, clock>>
    /\ ApplyFrame

\* the final path of the file the file patcher is at
FinalPath == patcher.files_to_patch[patcher.file]

\* tempfile.mkstemp(dir=dest_dir): an empty file under a name not in use
Mkstemp ==
    /\ patcher.pc = "mkstemp"
    /\ \E t \in TempNames :
         /\ t \notin DOMAIN install
         /\ \A u \in TempNames : u \notin DOMAIN install => SortedPaths({t, u})[1] = t
         /\ install' = (t :> [data |-> <<>>, mtime |-> NextStamp(clock)]) @@ install
         /\ patcher' = [patcher EXCEPT !.pc = "write", !.temp_path = t, !.block = 1]
    /\ clock' = NextStamp(clock)
    /\ UNCHANGED <<changelog, budget>>
    /\ ApplyFrame

\* a faulty variant of WritePath: the blocks are written to the final path
WriteInPlace(temp_path, final_path) == final_path

\* the path the blocks of a file are written to: the temporary file
WritePath(temp_path, final_path) == temp_path

\* f.write(data) on the file at path
FileWrite(inst, path, data, now) ==
    (path :> [data |-> (IF path \in DOMAIN inst THEN inst[path].data ELSE <<>>) \o data,
              mtime |-> now]) @@ inst

\* a faulty variant of RemoveTemp: the install tree is emptied
RemoveEverything(inst, temp_path) == NoFiles

\* a faulty variant of RemoveTemp: the temporary file is left behind
KeepTemp(inst, temp_path) == inst

\* the finally clause of apply_patch_to_file: the temporary file is removed
RemoveTemp(inst, temp_path) == Restrict(inst, DOMAIN inst \ {temp_path})

\* f.write(local_blocks[block]) for the next block of the file; a block that is not
\* in local_blocks raises KeyError; after the last block the file is closed
WriteBlock ==
    /\ patcher.pc = "write"
    /\ LET blocks == patcher.new_build.files[FinalPath].blocks
       IN IF patcher.block > Len(blocks)
          THEN /\ patcher' = [patcher EXCEPT !.pc = "remove"]
               /\ UNCHANGED <<install, clock>>
          ELSE IF blocks[patcher.block] \in DOMAIN patcher.local_blocks
          THEN /\ install' = FileWrite(install, WritePath(patcher.temp_path, FinalPath),
                                    patcher.local_blocks[blocks[patcher.block]], NextStamp(clock))
               /\ clock' = NextStamp(clock)
               /\ patcher' = [patcher EXCEPT !.block = @ + 1]
          ELSE /\ install' = RemoveTemp(install, patcher.temp_path)
               /\ patcher' = [patcher EXCEPT !.pc = "failed"]
               /\ UNCHANGED clock
    /\ UNCHANGED <<changelog, budget>>
    /\ ApplyFrame

\* a write, the removal of the old file or the rename raises OSError
WriteError ==
    /\ patcher.pc \in {"write", "remove", "replace"}
    /\ budget < MaxEvents
    /\ budget' = budget + 1
    /\ install' = RemoveTemp(install, patcher.temp_path)
    /\ patcher' = [patcher EXCEPT !.pc = "failed", !.faulted = TRUE]
    /\ UNCHANGED <<changelog, clock>>
    /\ ApplyFrame

\* if os.path.exists(final_path): os.remove(final_path)
RemoveFinal ==
    /\ patcher.pc = "remove"
    /\ install' = Restrict(install, DOMAIN install \ {FinalPath})
    /\ patcher' = [patcher EXCEPT !.pc = "replace"]
    /\ UNCHANGED <<changelog, clock, budget>>
    /\ ApplyFrame

\* os.replace(temp_path, final_path), and on to the next file or to the cleaner
Replace ==
    /\ patcher.pc = "replace"
    /\ install' = (FinalPath :> install[patcher.temp_path])
                     @@ Restrict(install, DOMAIN install \ {patcher.temp_path})
    /\ patcher' = NextFile([patcher EXCEPT !.renamed = @ \cup {FinalPath}],
                           patcher.file, install')
    /\ UNCHANGED <<changelog, clock, budget>>
    /\ ApplyFrame

\* Cleaner._cleanup_file on one file the walk listed: a file outside the manifest
\* leaves the changelog and is removed (a file already gone is passed over, and the
\* top-level .DS_Store is left alone); a file of the manifest gets its metadata
\* recorded
CleanupFile ==
    /\ patcher.pc = "clean"
    /\ \E p \in patcher.files_to_process :
         /\ IF p \notin DOMAIN patcher.new_build.files
            THEN IF p = ".DS_Store"
                 THEN UNCHANGED install /\ patcher' = [patcher EXCEPT !.files_to_process = @ \ {p}]
                 ELSE /\ install' = Restrict(install, DOMAIN install \ {p})
                      /\ patcher' = [patcher EXCEPT
                                        !.files_to_process = @ \ {p},
                                        !.change_log = Restrict(@, DOMAIN @ \ {p})]
            ELSE /\ UNCHANGED install
                 /\ patcher' = [patcher EXCEPT
                                   !.files_to_process = @ \ {p},
                                   !.change_log =
                                       IF HasDSStore(p) THEN @
                                       ELSE (p :> GetFileMetadata(install[p])) @@ @]
    /\ UNCHANGED <<changelog, clock, budget>>
    /\ ApplyFrame

\* os.remove or os.path.getsize raises in _cleanup_file: the worker thread ends with
\* the exception, which executor.map keeps in a result nobody reads
CleanupFileError ==
    /\ patcher.pc = "clean"
    /\ budget < MaxEvents
    /\ budget' = budget + 1
    /\ \E p \in patcher.files_to_process :
         patcher' = [patcher EXCEPT
                        !.files_to_process = @ \ {p},
                        !.cleanerErrors = TRUE,
                        !.change_log = IF p \in DOMAIN patcher.new_build.files
                                       THEN @ ELSE Restrict(@, DOMAIN @ \ {p})]
    /\ UNCHANGED <<install, changelog, clock>>
    /\ ApplyFrame

\* every worker of the cleaner is done
CleanerDone ==
    /\ patcher.pc = "clean"
    /\ patcher.files_to_process = {}
    /\ patcher' = [patcher EXCEPT !.pc = "save"]
    /\ UNCHANGED <<install, changelog, clock, budget>>
    /\ ApplyFrame

\* ChangeLog.save, the last statement of Patcher.patch
Save ==
    /\ patcher.pc = "save"
    /\ changelog' = patcher.change_log
    /\ patcher' = [patcher EXCEPT !.pc = "done"]
    /\ UNCHANGED <<install, clock, budget>>
    /\ ApplyFrame

\* the process is killed, or the machine stops, at any step
Crash ==
    /\ Running
    /\ budget < MaxEvents
    /\ budget' = budget + 1
    /\ patcher' = [patcher EXCEPT !.pc = "crashed"]
    /\ UNCHANGED <<install, changelog, clock>>
    /\ ApplyFrame

NextApply ==
    \/ Publish
    \/ SetAvail
    \/ UserWrite
    \/ UserDelete
    \/ StartApply
    \/ Fetch
    \/ FetchError
    \/ Mkstemp
    \/ WriteBlock
    \/ WriteError
    \/ RemoveFinal
    \/ Replace
    \/ CleanupFile
    \/ CleanupFileError
    \/ CleanerDone
    \/ Save
    \/ Crash

SpecApply == InitApply /\ [][NextApply]_vars

(***************************************************************************)
(* FilePatcher.apply alone: a space of its own, in which the method is     *)
(* called with any list of files of the manifest and any pool of blocks,   *)
(* on an install directory that holds some of the files.                   *)
(***************************************************************************)
\* what the install directory holds of a file before the call
OldData == <<7>>

\* the lists of distinct paths out of S, the empty list left out
PathLists(S) ==
    {l \in UNION {[1..n -> S] : n \in 1..Cardinality(S)} :
        \A i, j \in DOMAIN l : i # j => l[i] # l[j]}

\* FilePatcher.apply(new_build, local_blocks, files_to_patch) is called
InitPatch ==
    /\ proc = FreshProcess /\ disk = EmptyDisk /\ last = NoCall /\ ncalls = 0
    /\ PlanUnused
    /\ PartsUnused
    /\ avail = "ok"
    /\ changelog = NoFiles
    /\ clock = 0
    /\ budget = 0
    /\ \E dir \in ApplySources, compress \in BOOLEAN :
         \E published \in {Published(EmptyDisk, dir, SortedPaths(DOMAIN dir), compress, "api")} :
            \E present \in SUBSET DOMAIN dir, have \in SUBSET FileHashes(published.manifest) :
               \E files \in PathLists(DOMAIN dir) :
                  /\ repo = [disk |-> published, source |-> dir, compress |-> compress,
                             via |-> "api"]
                  /\ install = [p \in present |-> [data |-> OldData, mtime |-> 0]]
                  /\ before = [install |-> install, changelog |-> NoFiles]
                  /\ patcher = NextFile([NoPatcher EXCEPT
                                            !.new_build = published.manifest,
                                            !.compression = compress,
                                            !.files_to_patch = files,
                                            !.local_blocks = [h \in have |->
                                                DecompressIfNeeded(compress,
                                                                   published.blocks[h])],
                                            !.fetched = TRUE],
                                        0, install)

NextPatch ==
    \/ Mkstemp
    \/ WriteBlock
    \/ WriteError
    \/ RemoveFinal
    \/ Replace

SpecPatch == InitPatch /\ [][NextPatch]_vars

(***************************************************************************)
(* The cleaner on an install tree with directories: a space of its own,    *)
(* one run of Cleaner.run with the manifest of the apply it ends.          *)
(***************************************************************************)
\* the directories of the model, "" being the install directory itself
TreeDirs == {"", "d", "d/e", "g"}

\* the files of the model
TreeFiles == {"f1", ".DS_Store", "d/f2", "d/.DS_Store", "d/e/f3"}

\* os.path.dirname of a path of the model
DirName(p) ==
    CASE p \in {"d/f2", "d/.DS_Store", "d/e"} -> "d"
      [] p \in {"d/e/f3"} -> "d/e"
      [] OTHER -> ""

\* os.listdir(directory)
ListDir(t, directory) ==
    {f \in t.files : DirName(f) = directory}
       \cup {c \in t.dirs : c # "" /\ DirName(c) = directory}

\* a tree of the file system: every file and directory but the root has its parent
IsTree(t) ==
    /\ "" \in t.dirs
    /\ \A c \in t.dirs \ {""} : DirName(c) \in t.dirs
    /\ \A f \in t.files : DirName(f) \in t.dirs

\* the orders os.walk(install_directory, topdown=False) lists the directories in:
\* every directory after its sub-directories
CleanerWalkOrders == {<<"d/e", "d", "g", "">>, <<"g", "d/e", "d", "">>}


\* the cleaner is not running
NoCleaner ==
    [pc |-> "idle", files |-> {}, files_to_process |-> {}, dirs_to_check |-> <<>>,
     change_log |-> {}, raised |-> FALSE]

\* Cleaner.run is called on a tree that holds every file of the manifest (the file
\* patcher has written them); the changelog records any of the files
InitClean ==
    /\ proc = FreshProcess /\ disk = EmptyDisk /\ last = NoCall /\ ncalls = 0
    /\ PlanUnused
    /\ ApplyUnused
    /\ net = [pc |-> "idle"] /\ scanner = NoScanner /\ trainer = NoTrainer
    /\ tree \in {t \in [files : SUBSET TreeFiles, dirs : SUBSET TreeDirs] : IsTree(t)}
    /\ \E files \in SUBSET tree.files :
         \E log \in {{}, tree.files \ {".DS_Store", "d/.DS_Store"}} :
            cleaner = [NoCleaner EXCEPT !.pc = "walk", !.files = files, !.change_log = log]

CleanFrame == UNCHANGED <<prodVars, planVars, applyVars, netVars>>

\* the os.walk loop of Cleaner.run
Walk ==
    /\ cleaner.pc = "walk"
    /\ \E order \in CleanerWalkOrders :
         cleaner' = [cleaner EXCEPT
                        !.pc = "files",
                        !.files_to_process = tree.files,
                        !.dirs_to_check = SelectSeq(order, LAMBDA c : c \in tree.dirs)]
    /\ UNCHANGED tree
    /\ CleanFrame

\* Cleaner._cleanup_file in a worker of the pool, on one of the files listed
CleanFile ==
    /\ cleaner.pc = "files"
    /\ \E p \in cleaner.files_to_process :
         IF p \notin cleaner.files
         THEN IF p = ".DS_Store"
              THEN /\ UNCHANGED tree
                   /\ cleaner' = [cleaner EXCEPT !.files_to_process = @ \ {p}]
              ELSE /\ tree' = [tree EXCEPT !.files = @ \ {p}]
                   /\ cleaner' = [cleaner EXCEPT !.files_to_process = @ \ {p},
                                                 !.change_log = @ \ {p}]
         ELSE /\ UNCHANGED tree
              /\ cleaner' = [cleaner EXCEPT
                                !.files_to_process = @ \ {p},
                                !.change_log = IF HasDSStore(p) THEN @ ELSE @ \cup {p}]
    /\ CleanFrame

\* os.remove raises something other than FileNotFoundError (the file is in use or
\* its directory is read-only): the worker ends with the exception, which
\* executor.map keeps in a result that is never read
CleanFileError ==
    /\ cleaner.pc = "files"
    /\ \E p \in cleaner.files_to_process :
         /\ p \notin cleaner.files
         /\ p # ".DS_Store"
         /\ cleaner' = [cleaner EXCEPT !.files_to_process = @ \ {p},
                                       !.change_log = @ \ {p},
                                       !.raised = TRUE]
    /\ UNCHANGED tree
    /\ CleanFrame

\* the with block of the pool ends when every worker is done
PoolDone ==
    /\ cleaner.pc = "files"
    /\ cleaner.files_to_process = {}
    /\ cleaner' = [cleaner EXCEPT !.pc = "dirs"]
    /\ UNCHANGED tree
    /\ CleanFrame

\* Cleaner._delete_empty_folders on the next directory of the list, then the return
\* of Cleaner.run after the last
DeleteEmptyFolders ==
    /\ cleaner.pc = "dirs"
    /\ IF cleaner.dirs_to_check = <<>>
       THEN /\ cleaner' = [cleaner EXCEPT !.pc = "done"]
            /\ UNCHANGED tree
       ELSE /\ cleaner' = [cleaner EXCEPT !.dirs_to_check = Tail(@)]
            /\ tree' = IF ListDir(tree, Head(cleaner.dirs_to_check)) = {}
                       THEN [tree EXCEPT !.dirs = @ \ {Head(cleaner.dirs_to_check)}]
                       ELSE tree
    /\ CleanFrame

\* os.rmdir raises OSError on an empty directory (it is in use or its parent is
\* read-only), and _delete_empty_folders passes over it
DeleteEmptyFoldersError ==
    /\ cleaner.pc = "dirs"
    /\ cleaner.dirs_to_check # <<>>
    /\ ListDir(tree, Head(cleaner.dirs_to_check)) = {}
    /\ cleaner' = [cleaner EXCEPT !.dirs_to_check = Tail(@), !.raised = TRUE]
    /\ UNCHANGED tree
    /\ CleanFrame

NextClean ==
    \/ Walk
    \/ CleanFile
    \/ CleanFileError
    \/ PoolDone
    \/ DeleteEmptyFolders
    \/ DeleteEmptyFoldersError

SpecClean == InitClean /\ [][NextClean]_vars

(***************************************************************************)
(* The changelog and the files it tracks: a space of its own, in which the *)
(* cleaner records files, users change them, and gluu validate can be run  *)
(* in every state.                                                         *)
(***************************************************************************)
\* the paths of this space
TrackedPaths == {"f1", "f2", ".DS_Store"}

\* the contents a file is given
TrackedData == {<<>>, <<7>>}

\* changelog.json as ChangeLog.load finds it: absent (or no JSON), which loads as
\* {}, or with an entry for a file that is not installed
LoadedChangelogs == {NoFiles, ("f1" :> [size |-> "0", lastMod |-> "0"])}

InitValidate ==
    /\ proc = FreshProcess /\ disk = EmptyDisk /\ last = NoCall /\ ncalls = 0
    /\ PlanUnused
    /\ PartsUnused
    /\ repo = [disk |-> EmptyDisk, source |-> NoFiles, compress |-> FALSE, via |-> "cli"]
    /\ avail = "ok"
    /\ install = NoFiles
    /\ changelog \in LoadedChangelogs
    /\ clock = 0
    /\ patcher = NoPatcher
    /\ before = [install |-> NoFiles, changelog |-> changelog]
    /\ budget = 0

\* one more event on the installation; before keeps the state it happens in
ValidateEvent ==
    /\ budget < MaxEvents
    /\ budget' = budget + 1
    /\ before' = [install |-> install, changelog |-> changelog]
    /\ UNCHANGED <<repo, avail, patcher, prodVars, planVars, cleanVars, netVars>>

\* a file is written
TrackedWrite ==
    /\ ValidateEvent
    /\ \E p \in TrackedPaths, data \in TrackedData :
         install' = (p :> [data |-> data, mtime |-> NextStamp(clock)]) @@ install
    /\ clock' = NextStamp(clock)
    /\ UNCHANGED changelog

\* os.utime(path, ns=...): the mtime of a file is set a nanosecond back or forth
Utime ==
    /\ ValidateEvent
    /\ \E p \in DOMAIN install :
         \E t \in {install[p].mtime - 1, install[p].mtime + 1} :
            /\ t >= 0
            /\ install' = [install EXCEPT ![p].mtime = t]
    /\ UNCHANGED <<changelog, clock>>

\* a file is removed
TrackedDelete ==
    /\ ValidateEvent
    /\ \E p \in DOMAIN install : install' = Restrict(install, DOMAIN install \ {p})
    /\ UNCHANGED <<changelog, clock>>

\* ChangeLog.update_metadata(filename) of an installed file
UpdateMetadata ==
    /\ ValidateEvent
    /\ \E p \in DOMAIN install :
         changelog' = IF HasDSStore(p) THEN changelog
                      ELSE (p :> GetFileMetadata(install[p])) @@ changelog
    /\ UNCHANGED <<install, clock>>

\* ChangeLog.remove_file(filename)
RemoveFile ==
    /\ ValidateEvent
    /\ \E p \in TrackedPaths : changelog' = Restrict(changelog, DOMAIN changelog \ {p})
    /\ UNCHANGED <<install, clock>>

NextValidate ==
    \/ TrackedWrite
    \/ Utime
    \/ TrackedDelete
    \/ UpdateMetadata
    \/ RemoveFile

SpecValidate == InitValidate /\ [][NextValidate]_vars

(***************************************************************************)
(* One remote fetch and the server that answers it: a space of its own.    *)
(***************************************************************************)
\* the trees published for the fetch: blocks that end in LF and in CR among them
FetchSources ==
    <<("f1" :> <<1, 10, 3, 4, 5, 13>>),
      ("f1" :> <<1, 10, 3, 4, 5, 13>>) @@ ("f2" :> <<7, 8>>)>>

\* the patch directory after one or two releases
FetchRepos(compress) ==
    LET first == Published(EmptyDisk, FetchSources[1], <<"f1">>, compress, "api")
    IN {first, Published(first, FetchSources[2], <<"f1", "f2">>, compress, "api")}

\* the needed blocks of a plan for a bundle: its members among the wanted blocks
NeededOf(members, wanted) == SelectSeq(MemberHashes(members), LAMBDA h : h \in wanted)

\* the multipart bodies a server answers a request for ranges with: each range
\* sent with its Content-Range header, sent without it or left out, or all of the
\* ranges sent as the one range that spans them
MultipartBodies(bundle_data, ranges) ==
    LET slice(s, e) == SliceBytes(bundle_data, s, e - s + 1)
        body(choice) ==
            LET sent == SelectSeq([i \in 1..Len(ranges) |-> i],
                                  LAMBDA i : choice[i] # "absent")
            IN [j \in 1..Len(sent) |->
                  BodyPart(choice[sent[j]] = "part", ranges[sent[j]].start,
                           ranges[sent[j]].end,
                           slice(ranges[sent[j]].start, ranges[sent[j]].end))]
    IN {body(choice) : choice \in [1..Len(ranges) -> {"part", "bare", "absent"}]}
          \cup {<<BodyPart(TRUE, ranges[1].start, ranges[Len(ranges)].end,
                           slice(ranges[1].start, ranges[Len(ranges)].end))>>}

\* no response yet, or the last step was none
NoResponse == [kind |-> "none", bundle |-> 0, ranges |-> <<>>, parts |-> <<>>,
               pool |-> NoFiles]

\* Downloader.fetch is called with a plan over the bundles and blocks of the
\* manifest and a pool that holds some of its blocks; _fetch_remote has made the
\* range requests
InitFetch ==
    /\ proc = FreshProcess /\ disk = EmptyDisk /\ last = NoCall /\ ncalls = 0
    /\ PlanUnused
    /\ tree = [files |-> {}, dirs |-> {}]
    /\ cleaner = [pc |-> "idle"]
    /\ scanner = NoScanner
    /\ trainer = NoTrainer
    /\ avail = "ok"
    /\ install = NoFiles
    /\ changelog = NoFiles
    /\ clock = 0
    /\ patcher = NoPatcher
    /\ before = [install |-> NoFiles, changelog |-> NoFiles]
    /\ budget = 0
    /\ \E compress \in BOOLEAN :
         \E published \in FetchRepos(compress) :
            \E wanted \in SUBSET FileHashes(published.manifest) :
               \E blocks \in SUBSET (FileHashes(published.manifest) \ wanted) :
                  \E have \in SUBSET (FileHashes(published.manifest) \ blocks) :
                     /\ repo = [disk |-> published, source |-> NoFiles,
                                compress |-> compress, via |-> "api"]
                     /\ net = [pc |-> "bundles",
                               new_build |-> published.manifest,
                               use_compression |-> compress,
                               bundles |-> [b \in 1..Len(published.manifest.bundles) |->
                                   [k |-> published.manifest.bundles[b].k,
                                    v |-> NeededOf(published.manifest.bundles[b].v, wanted)]],
                               blocks_to_download |-> blocks,
                               bundle_tasks |->
                                   {b \in 1..Len(published.manifest.bundles) :
                                       NeededOf(published.manifest.bundles[b].v, wanted) # <<>>},
                               block_tasks |-> {},
                               local_blocks |-> [h \in have |->
                                   DecompressIfNeeded(compress, published.blocks[h])],
                               last |-> NoResponse]

FetchFrame == UNCHANGED <<prodVars, planVars, applyVars, cleanVars, scanner, trainer>>

\* the ranges _fetch_remote asks bundle number b of the plan for
RangesOf(b) == CreateRangeRequests(net.new_build, net.bundles[b].k, net.bundles[b].v)

\* the outcome of handling a response: the pool is updated, or the task raises and
\* with it Downloader.fetch
Handled(b, kind, parts, result) ==
    net' = [net EXCEPT
               !.pc = IF result.ok THEN @ ELSE "raised",
               !.bundle_tasks = @ \ {b},
               !.local_blocks = result.pool,
               !.last = [kind |-> kind, bundle |-> b, ranges |-> RangesOf(b),
                         parts |-> parts, pool |-> net.local_blocks]]

\* _fetch_bundle_ranges gets status 206 with Content-Type multipart/byteranges
MultipartResponse ==
    /\ net.pc = "bundles"
    /\ \E b \in net.bundle_tasks :
         /\ net.bundles[b].k \in DOMAIN repo.disk.bundles
         /\ \E parts \in MultipartBodies(repo.disk.bundles[net.bundles[b].k], RangesOf(b)) :
              Handled(b, "multipart", parts,
                      ProcessMultipartResponse(parts, 1, RangesOf(b), net.use_compression,
                                               net.local_blocks))
    /\ FetchFrame

\* _fetch_bundle_ranges gets status 206 with one body, which a server that serves
\* one range per request fills with the first range asked for
SingleRangeResponse ==
    /\ net.pc = "bundles"
    /\ \E b \in net.bundle_tasks :
         /\ net.bundles[b].k \in DOMAIN repo.disk.bundles
         /\ Handled(b, "single", <<>>,
                    ProcessSingleRange(
                        SliceBytes(repo.disk.bundles[net.bundles[b].k], RangesOf(b)[1].start,
                                   RangesOf(b)[1].end - RangesOf(b)[1].start + 1),
                        RangesOf(b)[1], net.use_compression, net.local_blocks))
    /\ FetchFrame

\* _fetch_bundle_ranges gets another status (200 from a server without ranges, or an
\* error status): util.fetch gets the whole bundle, or raises when that request
\* fails too, and _process_bundle takes the blocks of the ranges from it
FallbackResponse ==
    /\ net.pc = "bundles"
    /\ \E b \in net.bundle_tasks, status \in {200, 404} :
         IF status = 200 /\ net.bundles[b].k \in DOMAIN repo.disk.bundles
         THEN Handled(b, "full", <<>>,
                      ProcessBundle(net.new_build, net.bundles[b].k,
                                    repo.disk.bundles[net.bundles[b].k],
                                    RangeHashes(RangesOf(b)), net.use_compression,
                                    net.local_blocks))
         ELSE Handled(b, "error", <<>>, [ok |-> FALSE, pool |-> net.local_blocks])
    /\ FetchFrame

\* every bundle task is done: the tasks for the single blocks are made
BundlesDone ==
    /\ net.pc = "bundles"
    /\ net.bundle_tasks = {}
    /\ net' = [net EXCEPT !.pc = "blocks", !.block_tasks = net.blocks_to_download,
                          !.last = NoResponse]
    /\ FetchFrame

\* util.fetch of a block: local_blocks[block_id] = self._decompress_if_needed(resp),
\* or the task raises on an error status or on bytes that do not decompress
BlockResponse ==
    /\ net.pc = "blocks"
    /\ \E h \in net.block_tasks, status \in {200, 404} :
         IF /\ status = 200
            /\ h \in DOMAIN repo.disk.blocks
            /\ CanDecompress(net.use_compression, repo.disk.blocks[h])
         THEN net' = [net EXCEPT
                         !.block_tasks = @ \ {h},
                         !.local_blocks =
                             (h :> DecompressIfNeeded(net.use_compression, repo.disk.blocks[h]))
                                @@ @,
                         !.last = NoResponse]
         ELSE net' = [net EXCEPT !.pc = "raised", !.last = NoResponse]
    /\ FetchFrame

\* Downloader.fetch returns
FetchReturns ==
    /\ net.pc = "blocks"
    /\ net.block_tasks = {}
    /\ net' = [net EXCEPT !.pc = "done", !.last = NoResponse]
    /\ FetchFrame

NextFetch ==
    \/ MultipartResponse
    \/ SingleRangeResponse
    \/ FallbackResponse
    \/ BundlesDone
    \/ BlockResponse
    \/ FetchReturns

SpecFetch == InitFetch /\ [][NextFetch]_vars

(***************************************************************************)
(* BlockGenerator.scan: a space of its own, the step                       *)
(* local_blocks = self.block_generator.scan(files_to_patch) of             *)
(* Patcher.patch with files that fastcdc cannot read.                      *)
(***************************************************************************)
\* the files the working directory may hold under the names of files_to_patch
ScanFiles == ("f1" :> <<2, 4>>) @@ ("f2" :> <<1, 2, 4>>) @@ ("tmp1" :> <<6>>)

\* scan(files_to_patch) is called: executor.map submits one task per file; some of
\* the names exist in the working directory, and fastcdc raises on some of those
\* (the file cannot be opened or read)
InitScan ==
    /\ proc = FreshProcess /\ disk = EmptyDisk /\ last = NoCall /\ ncalls = 0
    /\ PlanUnused
    /\ ApplyUnused
    /\ tree = [files |-> {}, dirs |-> {}]
    /\ cleaner = [pc |-> "idle"]
    /\ net = [pc |-> "idle"]
    /\ trainer = NoTrainer
    /\ \E files \in PathLists(DOMAIN ScanFiles), present \in SUBSET DOMAIN ScanFiles :
         \E unreadable \in SUBSET present :
            scanner = [NoScanner EXCEPT
                          !.pc = "scan",
                          !.files_to_patch = files,
                          !.cwd = [p \in present |-> [data |-> ScanFiles[p], mtime |-> 0]],
                          !.unreadable = unreadable,
                          !.pending = 1..Len(files)]

ScanFrame == UNCHANGED <<prodVars, planVars, applyVars, cleanVars, net, trainer>>

\* the blocks dict after blocks[result.hash] = result.data for the chunks of content
PutChunks(blocks, content) ==
    [h \in {Sha256(FastCDC(content)[n]) : n \in 1..Len(FastCDC(content))} |->
        CHOOSE c \in {FastCDC(content)[n] : n \in 1..Len(FastCDC(content))} : Sha256(c) = h]
       @@ blocks

\* BlockGenerator._run_fastcdc_on_file in a worker of the pool, on task number i: a
\* name that does not exist is passed over, an exception of fastcdc is printed and
\* raised again, which ends the task with the exception as its result
RunFastcdcOnFile ==
    /\ scanner.pc = "scan"
    /\ \E i \in scanner.pending :
         scanner' =
            IF scanner.files_to_patch[i] \notin DOMAIN scanner.cwd
            THEN [scanner EXCEPT !.pending = @ \ {i}]
            ELSE IF scanner.files_to_patch[i] \in scanner.unreadable
            THEN [scanner EXCEPT !.pending = @ \ {i}, !.raised = @ \cup {i}]
            ELSE [scanner EXCEPT
                     !.pending = @ \ {i},
                     !.blocks = PutChunks(@, scanner.cwd[scanner.files_to_patch[i]].data)]
    /\ ScanFrame

\* for _ in executor.map(...): the results are taken in the order of the tasks, and
\* the result of a task that raised raises in scan; the tasks not yet started are
\* cancelled, and the exception leaves scan and Patcher.patch, which has no handler
ScanRaises ==
    /\ scanner.pc = "scan"
    /\ \E i \in scanner.raised :
         /\ \A j \in 1..(i - 1) : j \notin scanner.pending /\ j \notin scanner.raised
         /\ scanner' = [scanner EXCEPT !.pc = "raised", !.pending = {}]
    /\ ScanFrame

\* every result is taken and none raised: scan returns blocks and Patcher.patch goes
\* on to get_missing_blocks
ScanReturns ==
    /\ scanner.pc = "scan"
    /\ scanner.pending = {}
    /\ scanner.raised = {}
    /\ scanner' = [scanner EXCEPT !.pc = "returned"]
    /\ ScanFrame

NextScan ==
    \/ RunFastcdcOnFile
    \/ ScanRaises
    \/ ScanReturns

SpecScan == InitScan /\ [][NextScan]_vars

(***************************************************************************)
(* The dictionary: writeBlockFiles calls util.load_or_train_dict with the   *)
(* class-level list of raw blocks, which every processDir of the process    *)
(* appends to.  A dictionary is told by the sample it was trained on.       *)
(***************************************************************************)
\* the sample limit of a call without regen_dict, 2000 in the source
Samples == 2

\* the raw blocks of the source directories
DictBlocks == {<<1>>, <<2>>}

\* at most so many raw blocks are collected in a process
MaxDictBlocks == 4

\* at most so many create calls in a process
MaxTrainCalls == 3

\* a dictionary file that was at the dictionary path before the process started
OldDict == [exists |-> TRUE, trained_on |-> <<<<9>>>>]

\* random.sample(uncompressed_data, k): k elements at distinct places, in any order
RandomSample(uncompressed_data, k) ==
    {[j \in 1..k |-> uncompressed_data[f[j]]] :
        f \in {g \in [1..k -> 1..Len(uncompressed_data)] :
                 \A a, b \in 1..k : a # b => g[a] # g[b]}}

\* the training samples load_or_train_dict may take; samples is <<>> for None
TrainingSamples(uncompressed_data, samples) ==
    IF Len(samples) = 1 /\ Len(uncompressed_data) > samples[1]
    THEN RandomSample(uncompressed_data, samples[1])
    ELSE {uncompressed_data}

\* zstd.train_dictionary(block_size, training_sample)
TrainDictionary(training_sample) == [exists |-> TRUE, trained_on |-> training_sample]

\* util.load_or_train_dict with the sample it drew: a file at dict_path is loaded,
\* and only without one a dictionary is trained and written
LoadOrTrainDict(dict_file, training_sample) ==
    IF dict_file.exists
    THEN [dict_data |-> dict_file, file |-> dict_file, trained |-> FALSE]
    ELSE [dict_data |-> TrainDictionary(training_sample),
          file |-> TrainDictionary(training_sample), trained |-> TRUE]

InitDict ==
    /\ proc = FreshProcess /\ disk = EmptyDisk /\ last = NoCall /\ ncalls = 0
    /\ PlanUnused
    /\ ApplyUnused
    /\ tree = [files |-> {}, dirs |-> {}]
    /\ cleaner = [pc |-> "idle"]
    /\ net = [pc |-> "idle"]
    /\ scanner = NoScanner
    /\ \E file \in {NoDict, OldDict} :
         trainer = [NoTrainer EXCEPT !.file = file, !.before = file]

DictFrame == UNCHANGED <<prodVars, planVars, applyVars, cleanVars, net, scanner>>

\* processDir: every block of the directory is appended to the class-level list
ProcessDirBlocks ==
    /\ trainer.pc = "idle"
    /\ trainer.calls < MaxTrainCalls
    /\ \E n \in 1..2 :
         \E blocks \in [1..n -> DictBlocks] :
            /\ Len(trainer.uncompressed_block_data) + n <= MaxDictBlocks
            /\ trainer' = [trainer EXCEPT
                              !.pc = "processed",
                              !.uncompressed_block_data = @ \o blocks]
    /\ DictFrame

\* writeBlockFiles up to the compressor: with compress the dictionary is loaded or
\* trained, with 2000 samples unless regenDict; without compress nothing is done
WriteBlockFilesDictionary ==
    /\ trainer.pc = "processed"
    /\ \E compress \in BOOLEAN, regenDict \in BOOLEAN :
         \E training_sample \in
               TrainingSamples(trainer.uncompressed_block_data,
                               IF regenDict THEN <<>> ELSE <<Samples>>) :
            \E r \in {IF compress
                      THEN LoadOrTrainDict(trainer.file, training_sample)
                      ELSE [dict_data |-> NoDict, file |-> trainer.file,
                            trained |-> FALSE]} :
               trainer' = [trainer EXCEPT
                              !.pc = "idle",
                              !.before = trainer.file,
                              !.file = r.file,
                              !.compress = compress,
                              !.regenDict = regenDict,
                              !.dict_data = r.dict_data,
                              !.trained = r.trained,
                              !.calls = @ + 1]
    /\ DictFrame

NextDict ==
    \/ ProcessDirBlocks
    \/ WriteBlockFilesDictionary

SpecDict == InitDict /\ [][NextDict]_vars

(***************************************************************************)
(* Claims about the producer.                                              *)
(***************************************************************************)
\* every block hash of the files is in exactly one bundle, and the bundles hold
\* nothing but the block hashes of the files
PartitionOK(m) ==
    /\ \A h \in FileHashes(m) : Cardinality(PlacesOf(m, h)) = 1
    /\ BundleHashes(m) = FileHashes(m)

\* C1 (partition): every manifest create_patch produces, with any prior manifest,
\* has every distinct block hash of its file records in exactly one bundle, and the
\* union of its bundle members is the set of the block hashes of its files.
C1_Partition == last.ok => PartitionOK(last.manifest)

\* C1, as far as the code keeps it: the manifest of the first create_patch call of a
\* process is partitioned.
C1_PartitionInFreshProcess == (last.ok /\ last.fresh) => PartitionOK(last.manifest)

\* bundle b of the prior manifest is in manifest m with its id and its ordered
\* members, and no other bundle of m holds one of its blocks
Reused(m, b) ==
    \E n \in 1..Len(m.bundles) :
        /\ m.bundles[n].k = b.k
        /\ MemberHashes(m.bundles[n].v) = MemberHashes(b.v)
        /\ \A pl \in MemberPlaces(m) :
              pl[1] # n => \A i \in 1..Len(b.v) : m.bundles[pl[1]].v[pl[2]].hash # b.v[i].hash

\* the bundles of the prior manifest whose block hashes are all in the block set of
\* the call
Surviving(prior, blockSet) ==
    {n \in 1..Len(prior.bundles) :
        \A i \in 1..Len(prior.bundles[n].v) : prior.bundles[n].v[i].hash \in blockSet}

\* C7 (bundle reuse), for a call that keeps the compression setting of the prior
\* manifest: every prior bundle whose block hashes are all in the new block set is in
\* the new manifest with the same id and the same ordered members, and none of its
\* blocks is in another bundle of the new manifest.
C7_BundleReuse ==
    (last.ok /\ last.prior.compression.enabled = last.compress) =>
        \A n \in Surviving(last.prior, last.blockSet) : Reused(last.manifest, last.prior.bundles[n])

(***************************************************************************)
(* Claims about the planner.                                               *)
(***************************************************************************)
\* the missing members of a bundle, in member order
MissingMembers(members) == SelectSeq(MemberHashes(members), LAMBDA h : h \in missing_blocks)

\* at least half of the members of a bundle are missing
AtLeastHalf(members) == Len(members) > 0 /\ 2 * Len(MissingMembers(members)) >= Len(members)

\* the hashes of the needed lists of the plan
Scheduled == UNION {{plan.bundles[i].v[n] : n \in 1..Len(plan.bundles[i].v)} :
                    i \in 1..Len(plan.bundles)}

\* the threshold side of C6: a bundle at or above one half is in the plan with
\* exactly its missing members, none of them a single block; below it the bundle is
\* not in the plan
PlansByThreshold(b) ==
    IF AtLeastHalf(b.v)
    THEN /\ DictHas(plan.bundles, b.k)
         /\ DictGet(plan.bundles, b.k) = MissingMembers(b.v)
         /\ \A i \in 1..Len(MissingMembers(b.v)) : MissingMembers(b.v)[i] \notin plan.blocks
    ELSE ~DictHas(plan.bundles, b.k)

ToPatch == {patcher.files_to_patch[i] : i \in 1..Len(patcher.files_to_patch)}

\* the file at path p holds the complete concatenation of the blocks the manifest
\* lists for it, as the block pool of the process has them
Complete(p) ==
    LET blocks == patcher.new_build.files[p].blocks
    IN /\ \A i \in 1..Len(blocks) : blocks[i] \in DOMAIN patcher.local_blocks
       /\ install[p].data = Concat([i \in 1..Len(blocks) |-> patcher.local_blocks[blocks[i]]])

\* the file at path p holds what it held when the process started
AsBefore(p) == p \in DOMAIN before.install /\ install[p].data = before.install[p].data

\* C2 (apply fidelity): after gluu create has published a patch, with or without
\* compression, and an apply that read its manifest has completed, every file of
\* the manifest is in the install directory with the bytes of its source file.
C2_ApplyFidelity ==
    (patcher.pc = "done" /\ ~patcher.unreadable /\ repo.via = "cli") =>
        \A p \in DOMAIN patcher.new_build.files :
            p \in DOMAIN install /\ install[p].data = repo.source[p]

\* C3 (no half-written file): in every state of an apply process, a stop by a crash
\* or an error included, a final path of the manifest that holds a file holds either
\* its complete content of before the apply or the complete concatenation of its
\* blocks.
C3_NoHalfWrittenFile ==
    patcher.pc # "idle" =>
        \A p \in DOMAIN patcher.new_build.files \cap DOMAIN install : AsBefore(p) \/ Complete(p)

\* the temporary file is part written while the final path still holds other content
C3_Witness ==
    /\ patcher.pc = "write"
    /\ patcher.block = 2
    /\ Len(patcher.new_build.files[FinalPath].blocks) >= 2
    /\ install[patcher.temp_path].data # <<>>
    /\ FinalPath \in DOMAIN install
    /\ ~Complete(FinalPath)

\* C4 (changelog matches the manifest): after an apply that read the manifest and
\* completed with no error, the saved changelog holds the size and mtime of exactly
\* the files of the manifest, and validate_current_installation is true.
C4_ChangelogMatchesManifest ==
    (patcher.pc = "done" /\ ~patcher.unreadable /\ ~patcher.cleanerErrors) =>
        /\ DOMAIN changelog = DOMAIN patcher.new_build.files
        /\ \A p \in DOMAIN changelog :
              p \in DOMAIN install /\ changelog[p] = GetFileMetadata(install[p])
        /\ ValidateCurrentInstallation(changelog, install)

\* C5 (files to patch), its second half: a file of the manifest that is installed
\* with the bytes of the published source and has a valid changelog entry is not
\* among the files to patch.
C5_UpToDateNotSelected ==
    (patcher.pc = "fetch" /\ ~patcher.unreadable) =>
        \A p \in DOMAIN patcher.new_build.files :
            (/\ p \in DOMAIN install
             /\ install[p].data = repo.source[p]
             /\ IsValid(changelog, install, p)) => p \notin ToPatch

\* C8 (unreadable manifest): an apply that could not read patchData.json leaves the
\* install tree and the changelog as they were.
C8_UnreadableManifestAborts ==
    patcher.unreadable => (install = before.install /\ changelog = before.changelog)

\* the stage of a step of Patcher.patch
Stage(pc) ==
    CASE pc = "fetch" -> 1
      [] pc \in {"mkstemp", "write", "remove", "replace"} -> 2
      [] pc = "clean" -> 3
      [] pc = "save" -> 4
      [] OTHER -> 5

\* fetch, write, clean, save in this order; the cleaner runs after every rename;
\* while and after a run that did not reach the save, the on-disk changelog is the
\* one of before the run
OrderedStages ==
    /\ [][(Running /\ patcher'.pc # "idle") => Stage(patcher'.pc) >= Stage(patcher.pc)]_vars
    /\ [](patcher.pc \in {"clean", "save", "done"} => patcher.renamed = ToPatch)
    /\ [](patcher.pc \in {"fetch", "mkstemp", "write", "remove", "replace", "clean",
                          "save", "failed", "crashed", "aborted"}
             => changelog = before.changelog)

\* the step that writes changelog.json
Saves == patcher.pc # "done" /\ patcher'.pc = "done"

C10_FailureAfterRenamesAsStated ==
    (patcher.pc = "failed" /\ patcher.renamed # {}) =>
        /\ \A p \in patcher.renamed : p \in DOMAIN install /\ Complete(p)
        /\ \A p \in patcher.renamed :
              p \in DOMAIN changelog /\ changelog[p] = GetFileMetadata(install[p])
        /\ \A p \in DOMAIN changelog \ patcher.renamed :
              p \in DOMAIN before.changelog /\ changelog[p] = before.changelog[p]

\* C10 as the code keeps it: when an apply fails after renaming some files, those
\* files keep their new content and the on-disk changelog is the one of before the
\* run.
C10_FailureAfterRenames ==
    (patcher.pc = "failed" /\ patcher.renamed # {}) =>
        /\ \A p \in patcher.renamed : p \in DOMAIN install /\ Complete(p)
        /\ changelog = before.changelog

\* an apply has failed after renaming a file
C10_Witness == patcher.pc = "failed" /\ patcher.renamed # {}


(***************************************************************************)
(* Claims about the cleaner.                                               *)
(***************************************************************************)
\* no file outside the manifest but .DS_Store is in the tree, and no directory of
\* the tree is empty
CleanTree(t, files) ==
    /\ \A f \in t.files : f \in files \/ f \in {".DS_Store", "d/.DS_Store"}
    /\ \A c \in t.dirs : ListDir(t, c) # {}

\* C11 (cleaner completeness): when the cleaner of an apply that succeeds has
\* returned, no file outside manifest.files but .DS_Store is left in the install
\* tree, and no directory is left empty, those emptied by the removals included.
C11_CleanerCompleteness == cleaner.pc = "done" => CleanTree(tree, cleaner.files)

\* C11, as far as the code keeps it: it holds of the runs in which no removal raised.
C11_CleanerCompletenessUnlessRaised ==
    (cleaner.pc = "done" /\ ~cleaner.raised) => CleanTree(tree, cleaner.files)

\* a run with removals of files and of directories they emptied has returned
C11_Reached ==
    /\ cleaner.pc = "done"
    /\ ~cleaner.raised
    /\ "d/e" \notin tree.dirs
    /\ "f1" \in tree.files

(***************************************************************************)
(* Claims about the changelog.                                             *)
(***************************************************************************)
\* the file exists and its size and mtime strings are the recorded ones
MatchesRecord(cl, inst, p) ==
    /\ p \in DOMAIN inst
    /\ cl[p].size = ToString(Len(inst[p].data))
    /\ cl[p].lastMod = ToString(GetMtime(inst[p]))

\* validate_current_installation() is true if and only if every recorded path but
\* .DS_Store exists with the recorded size and mtime strings
ValidatesIffRecorded ==
    ValidateCurrentInstallation(changelog, install)
        <=> \A p \in DOMAIN changelog : p = ".DS_Store" \/ MatchesRecord(changelog, install, p)

\* the last event deleted a tracked file or changed its size or its mtime
TrackedFileChanged ==
    /\ changelog = before.changelog
    /\ \E p \in DOMAIN changelog \ {".DS_Store"} :
         /\ p \in DOMAIN before.install
         /\ \/ p \notin DOMAIN install
            \/ Len(install[p].data) # Len(before.install[p].data)
            \/ install[p].mtime # before.install[p].mtime

\* C12 (validator): validate_current_installation() is true exactly when every
\* recorded path other than .DS_Store exists with the recorded size and mtime
\* strings, an empty changelog validates, and deleting a tracked file or changing its
\* size or mtime turns a true result into false.
C12_Validator ==
    /\ ValidatesIffRecorded
    /\ changelog = NoFiles => ValidateCurrentInstallation(changelog, install)
    /\ (budget > 0 /\ TrackedFileChanged
          /\ ValidateCurrentInstallation(before.changelog, before.install))
         => ~ValidateCurrentInstallation(changelog, install)

\* C12, as far as the code keeps it: the same with a change of the mtime that the
\* float of os.path.getmtime shows.
C12_ValidatorByFloat ==
    /\ ValidatesIffRecorded
    /\ changelog = NoFiles => ValidateCurrentInstallation(changelog, install)
    /\ (budget > 0 /\ TrackedFileChanged
          /\ ValidateCurrentInstallation(before.changelog, before.install)
          /\ \A p \in DOMAIN changelog \cap DOMAIN install \cap DOMAIN before.install :
                install[p].mtime # before.install[p].mtime
                   => GetMtime(install[p]) # GetMtime(before.install[p]))
         => ~ValidateCurrentInstallation(changelog, install)

\* a tracked file of a valid installation has been touched and validate says so
C12_Reached ==
    /\ budget > 0
    /\ TrackedFileChanged
    /\ ValidateCurrentInstallation(before.changelog, before.install)
    /\ "f1" \in DOMAIN install
    /\ install["f1"].mtime # before.install["f1"].mtime
    /\ ~ValidateCurrentInstallation(changelog, install)

(***************************************************************************)
(* Claims about the fetch set.                                             *)
(***************************************************************************)
\* the block hashes the manifest lists for the files to patch
ReferencedBlocks ==
    UNION {{patcher.new_build.files[patcher.files_to_patch[i]].blocks[n] :
              n \in 1..Len(patcher.new_build.files[patcher.files_to_patch[i]].blocks)} :
           i \in 1..Len(patcher.files_to_patch)}

\* the hashes of the chunks of the installed copies of the files to patch
InstalledBlocks ==
    UNION {{Sha256(FastCDC(install[patcher.files_to_patch[i]].data)[n]) :
              n \in 1..Len(FastCDC(install[patcher.files_to_patch[i]].data))} :
           i \in {j \in 1..Len(patcher.files_to_patch) :
                     patcher.files_to_patch[j] \in DOMAIN install}}

\* the blocks scheduled for fetching, as needed members of a bundle or one by one
ScheduledBlocks ==
    patcher.blocks_to_download
       \cup UNION {{patcher.bundles[b].v[n] : n \in 1..Len(patcher.bundles[b].v)} :
                   b \in 1..Len(patcher.bundles)}

\* C13 (fetch set): the blocks an apply schedules for fetching are the blocks of the
\* files to patch minus the blocks of the installed copies of those files, so that
\* no block of an installed copy of a file being patched is fetched.
C13_FetchSet ==
    patcher.pc = "fetch" => ScheduledBlocks = ReferencedBlocks \ InstalledBlocks

\* C13, as far as the code keeps it: the blocks scheduled are those of the files to
\* patch that the scan did not put in the pool.
C13_FetchSetOfPool ==
    patcher.pc = "fetch" => ScheduledBlocks = ReferencedBlocks \ DOMAIN patcher.local_blocks

\* an apply that patches an installed file found blocks of its copy in the pool
C13_Reached ==
    /\ patcher.pc = "fetch"
    /\ InstalledBlocks \cap ReferencedBlocks # {}
    /\ ScheduledBlocks = ReferencedBlocks \ InstalledBlocks
    /\ ScheduledBlocks # ReferencedBlocks

(***************************************************************************)
(* Claims about the remote fetch.                                          *)
(***************************************************************************)
\* the bytes of member h of bundle number b of the plan: the slice of the bundle file
\* the manifest gives by blockOffset and length, decompressed when compression is on
MemberBytes(b, h) ==
    LET members == net.new_build.bundles[b].v
        m == members[CHOOSE i \in 1..Len(members) : members[i].hash = h]
    IN DecompressIfNeeded(net.use_compression,
                          SubSeq(repo.disk.bundles[net.new_build.bundles[b].k],
                                 m.blockOffset + 1, m.blockOffset + m.length))

\* the pool entries that were there before the last response are as they were
PresentUnchanged ==
    \A h \in DOMAIN net.last.pool :
        h \in DOMAIN net.local_blocks /\ net.local_blocks[h] = net.last.pool[h]

\* C14 (range fallback): when the range request for a bundle is answered with a
\* status other than 206 and the whole bundle file is downloaded instead, the pool
\* then maps every requested member to its slice of the bundle, decompressed when
\* compression is on, and the entries that were in the pool before are unchanged.
C14_RangeFallback ==
    (net.last.kind = "full" /\ net.pc # "raised") =>
        /\ \A i \in 1..Len(net.last.ranges) :
              /\ net.last.ranges[i].block_hash \in DOMAIN net.local_blocks
              /\ net.local_blocks[net.last.ranges[i].block_hash]
                    = MemberBytes(net.last.bundle, net.last.ranges[i].block_hash)
        /\ PresentUnchanged

\* a fallback for several members of a compressed bundle, one of them in the pool
\* already and one not
C14_Reached ==
    /\ net.last.kind = "full"
    /\ net.pc # "raised"
    /\ net.use_compression
    /\ Len(net.last.ranges) >= 2
    /\ \E i, j \in 1..Len(net.last.ranges) :
         /\ net.last.ranges[i].block_hash \in DOMAIN net.last.pool
         /\ net.last.ranges[j].block_hash \notin DOMAIN net.last.pool

\* the payload the server put in a part
PayloadOf(part) == SubSeq(part.rest, 1, Len(part.rest) - 2)

\* the parts of the last response that carry range number i of the request
PartsFor(i) ==
    {n \in 1..Len(net.last.parts) :
        net.last.parts[n].content_range
           = <<net.last.ranges[i].start, net.last.ranges[i].end>>}

\* C15 (multipart parsing): after a 206 multipart/byteranges response, for every
\* part whose Content-Range is a requested range the pool maps the block of that
\* range to exactly the payload of the part (decompressed when compression is on),
\* whatever bytes the payload is; parts without Content-Range or with a range that
\* was not requested add nothing.
C15_MultipartParsing ==
    (net.last.kind = "multipart" /\ net.pc # "raised") =>
        /\ \A i \in 1..Len(net.last.ranges) : \A n \in PartsFor(i) :
              /\ net.last.ranges[i].block_hash \in DOMAIN net.local_blocks
              /\ net.local_blocks[net.last.ranges[i].block_hash]
                    = DecompressIfNeeded(net.use_compression, PayloadOf(net.last.parts[n]))
        /\ \A h \in DOMAIN net.local_blocks :
              (\A i \in 1..Len(net.last.ranges) :
                   net.last.ranges[i].block_hash = h => PartsFor(i) = {})
                 => h \in DOMAIN net.last.pool /\ net.local_blocks[h] = net.last.pool[h]

\* C15, as far as the code keeps it: the same for the parts whose payload does not
\* end in a CR or LF byte.
C15_MultipartParsingUnlessCRLF ==
    (net.last.kind = "multipart" /\ net.pc # "raised") =>
        /\ \A i \in 1..Len(net.last.ranges) : \A n \in PartsFor(i) :
              RStrip(PayloadOf(net.last.parts[n])) = PayloadOf(net.last.parts[n])
                 => /\ net.last.ranges[i].block_hash \in DOMAIN net.local_blocks
                    /\ net.local_blocks[net.last.ranges[i].block_hash]
                          = DecompressIfNeeded(net.use_compression,
                                               PayloadOf(net.last.parts[n]))
        /\ \A h \in DOMAIN net.local_blocks :
              (\A i \in 1..Len(net.last.ranges) :
                   net.last.ranges[i].block_hash = h => PartsFor(i) = {})
                 => h \in DOMAIN net.last.pool /\ net.local_blocks[h] = net.last.pool[h]

\* a multipart response with a stored part, a part without Content-Range and a
\* range left out has been handled
C15_Reached ==
    /\ net.last.kind = "multipart"
    /\ net.pc # "raised"
    /\ Len(net.last.ranges) = 3
    /\ Len(net.last.parts) = 2
    /\ \E n \in 1..2 : net.last.parts[n].content_range = <<>>
    /\ \E i \in 1..3 : PartsFor(i) # {} /\ net.last.ranges[i].block_hash \notin DOMAIN net.last.pool

\* every hash of the plan: the needed members of the bundles and the single blocks
PlanHashes ==
    net.blocks_to_download
       \cup UNION {{net.bundles[b].v[n] : n \in 1..Len(net.bundles[b].v)} :
                   b \in 1..Len(net.bundles)}

\* C20 (fetch completeness): when Downloader.fetch returns without raising, whatever
\* the server answered (206 multipart, 206 with one body for a request of one or of
\* several ranges, another status), the pool holds every hash of the plan.
C20_FetchCompleteness == net.pc = "done" => PlanHashes \subseteq DOMAIN net.local_blocks

\* a fetch of bundles and of single blocks has returned with all of the plan
C20_Reached ==
    /\ net.pc = "done"
    /\ net.blocks_to_download # {}
    /\ \E b \in 1..Len(net.bundles) : Len(net.bundles[b].v) >= 2
    /\ PlanHashes \subseteq DOMAIN net.local_blocks

(***************************************************************************)
(* Claims about a repeated apply.                                          *)
(***************************************************************************)
\* the installed paths and the bytes of every installed file are those of the start
\* of the apply
SameTree ==
    /\ DOMAIN install = DOMAIN before.install
    /\ \A p \in DOMAIN install : install[p].data = before.install[p].data

\* C16 (apply idempotence): an apply of the manifest that the apply before it
\* completed with, nothing having changed in between, completes too unless a file
\* operation fails, and leaves the installed paths and the bytes of every installed
\* file as the first apply left them.
C16_ApplyIdempotence ==
    patcher.repeat =>
        /\ patcher.pc \in {"failed", "aborted"} => patcher.faulted
        /\ patcher.pc = "done" => SameTree

\* C16, as far as the code keeps it: it holds of the patches whose manifest tells
\* the truth about compression (made without --compress, or by create_patch called
\* as a library function).
C16_ApplyIdempotenceOfTruePatches ==
    (repo.via = "api" \/ ~repo.compress) => C16_ApplyIdempotence

\* a second apply of a manifest with a file of two blocks has rewritten the file
\* and completed
C16_Reached ==
    /\ patcher.repeat
    /\ patcher.pc = "done"
    /\ patcher.renamed # {}
    /\ \E p \in DOMAIN patcher.new_build.files : Len(patcher.new_build.files[p].blocks) >= 2
    /\ patcher.local_blocks # NoFiles
    /\ SameTree

(***************************************************************************)
(* Claims about the input errors of create.                                *)
(***************************************************************************)
\* C17 (empty source): create_patch on a source directory that is empty or does not
\* exist raises ValueError before anything is written to or deleted from the output
\* directory.
C17_EmptySourceRejected == (ncalls > 0 /\ last.empty) => (~last.ok /\ ~last.changed)

\* C17, as far as the code keeps it: it holds of the first create_patch call of a
\* process, which is what the command line makes.
C17_EmptySourceRejectedInFreshProcess ==
    (ncalls > 0 /\ last.empty /\ last.fresh) => (~last.ok /\ ~last.changed)

\* a fresh process was given an empty source and an output directory that holds a
\* release
C17_Reached ==
    /\ ncalls > 0
    /\ last.empty
    /\ last.fresh
    /\ ~last.ok
    /\ disk.hasManifest

\* C18 (invalid numeric option), for the compression level: create on a non-empty
\* source with compression and level 10 is rejected, with no manifest written.
C18_Level10Rejected ==
    (ncalls > 0 /\ ~last.empty /\ last.compress /\ last.level = 10) => ~last.ok

\* C18, as far as the code keeps it: a level above those of zstd is rejected.
C18_LevelAbove22Rejected ==
    (ncalls > 0 /\ ~last.empty /\ last.compress /\ ~LevelAccepted(last.level)) => ~last.ok

\* a create with compression and a level above those of zstd was rejected
C18_Reached ==
    /\ ncalls > 0
    /\ ~last.empty
    /\ last.compress
    /\ last.level = 23
    /\ ~last.ok

(***************************************************************************)
(* Claims about the packing of bundles.                                    *)
(***************************************************************************)
\* the member hashes of the bundles that the packing of the call formed, one after
\* the other
NewMembers == Concat([n \in 1..Len(last.formed) |-> MemberHashes(last.formed[n].v)])

\* C19 (greedy packing): the blocks that the reused bundles did not absorb are packed
\* in insertion order: every newly formed bundle but the last has exactly 60 members,
\* the last between 1 and 60, none is empty or has more than 60, the member lists of
\* the new bundles, one after the other, are the remaining pool in its order, and the
\* new bundles are bundles of the manifest.
C19_GreedyPacking ==
    last.ok =>
        /\ \A n \in 1..Len(last.formed) :
              /\ Len(last.formed[n].v) >= 1
              /\ Len(last.formed[n].v) <= 60
              /\ n < Len(last.formed) => Len(last.formed[n].v) = 60
              /\ \E m \in 1..Len(last.manifest.bundles) :
                    last.manifest.bundles[m] = last.formed[n]
        /\ NewMembers = last.remaining

\* a call has packed 61 blocks into a bundle of 60 and a bundle of one
C19_Reached ==
    /\ last.ok
    /\ Len(last.formed) = 2
    /\ Len(last.formed[1].v) = 60
    /\ Len(last.formed[2].v) = 1

\* a call has rebuilt a bundle of the prior manifest and packed the rest anew
C19_ReachedAfterReuse ==
    /\ last.ok
    /\ Len(last.formed) = 1
    /\ Len(last.manifest.bundles) > 1
    /\ Len(last.remaining) >= 1

(***************************************************************************)
(* Claims about the replacement of a file and the failure of a write.      *)
(***************************************************************************)
\* the file patcher is at a step of apply_patch_to_file
Replacing == patcher.pc \in {"mkstemp", "write", "remove", "replace"}

\* C21 (the final path stays present): in every state in which the file patcher is
\* replacing a file whose final path existed when the apply started, a file is at
\* the final path, so that no crash leaves the path with neither the old nor the
\* new file.
C21_FinalPathPresent ==
    (Replacing /\ FinalPath \in DOMAIN before.install) => FinalPath \in DOMAIN install

\* C21, as far as the code keeps it: the final path holds a file until
\* os.remove(final_path) has run.
C21_FinalPathPresentUntilRemove ==
    (patcher.pc \in {"mkstemp", "write", "remove"} /\ FinalPath \in DOMAIN before.install)
        => FinalPath \in DOMAIN install

\* the old file is removed and the temporary file is not yet renamed
C21_Reached ==
    /\ patcher.pc = "replace"
    /\ FinalPath \in DOMAIN before.install
    /\ FinalPath \notin DOMAIN install
    /\ patcher.temp_path \in DOMAIN install

\* an apply that was rewriting an installed file has stopped with the file gone
C21_Lost ==
    /\ patcher.pc \in {"failed", "crashed"}
    /\ patcher.file > 0
    /\ FinalPath \in DOMAIN before.install
    /\ FinalPath \notin DOMAIN install

\* the file at path p is as it was when the call started: absent if it was absent,
\* with the same bytes and the same mtime if it was there
Untouched(p) ==
    IF p \in DOMAIN before.install
    THEN p \in DOMAIN install /\ install[p] = before.install[p]
    ELSE p \notin DOMAIN install

\* every block of file number j of files_to_patch is in the pool
PoolHas(j) ==
    \A n \in 1..Len(patcher.new_build.files[patcher.files_to_patch[j]].blocks) :
        patcher.new_build.files[patcher.files_to_patch[j]].blocks[n]
            \in DOMAIN patcher.local_blocks

\* the file patcher has raised KeyError: it has stopped at a file with no failure of
\* a file operation
KeyErrorRaised == patcher.pc = "failed" /\ patcher.file > 0 /\ ~patcher.faulted

\* C22 (applier failure): a file of files_to_patch with a block hash that is not in
\* the pool is never written to the end; when the file patcher stops on it, its
\* temporary file is removed, its final path is as before (or still absent), no
\* later file of files_to_patch is touched, and every file renamed earlier holds its
\* new content.
C22_ApplierFailure ==
    /\ (patcher.pc \in {"remove", "replace"}) => PoolHas(patcher.file)
    /\ \A p \in patcher.renamed :
          \E j \in 1..Len(patcher.files_to_patch) :
              patcher.files_to_patch[j] = p /\ PoolHas(j)
    /\ KeyErrorRaised =>
          /\ ~PoolHas(patcher.file)
          /\ patcher.temp_path \notin DOMAIN install
          /\ DOMAIN install \cap TempNames = {}
          /\ Untouched(FinalPath)
          /\ \A j \in (patcher.file + 1)..Len(patcher.files_to_patch) :
                Untouched(patcher.files_to_patch[j])
          /\ patcher.renamed = {patcher.files_to_patch[j] : j \in 1..(patcher.file - 1)}
          /\ \A p \in patcher.renamed : p \in DOMAIN install /\ Complete(p)

\* the file patcher has renamed a file that was installed and then stopped on the
\* next one, which is installed too and lacks a block other than its first
C22_Reached ==
    /\ KeyErrorRaised
    /\ patcher.file = 2
    /\ patcher.block > 1
    /\ patcher.renamed # {}
    /\ FinalPath \in DOMAIN before.install
    /\ \A p \in patcher.renamed : p \in DOMAIN before.install /\ ~AsBefore(p)

(***************************************************************************)
(* Claims about the coverage of the plan.                                  *)
(***************************************************************************)
\* the places <<bundle, index>> of the needed lists of the plan
NeededPlaces ==
    UNION {{<<i, n>> : n \in 1..Len(plan.bundles[i].v)} : i \in 1..Len(plan.bundles)}

\* how many times the plan schedules hash h: its places in the needed lists, and one
\* more when it is a single block
TimesScheduled(h) ==
    Cardinality({pl \in NeededPlaces : plan.bundles[pl[1]].v[pl[2]] = h})
        + (IF h \in plan.blocks THEN 1 ELSE 0)

\* no hash is a member of the bundles of the manifest at two places
DisjointBundles(m) ==
    \A pl, ql \in MemberPlaces(m) :
        pl # ql => m.bundles[pl[1]].v[pl[2]].hash # m.bundles[ql[1]].v[ql[2]].hash

\* C23 (plan coverage): for every manifest and every missing set, the hashes in the
\* needed lists of the scheduled bundles and the single blocks are together exactly
\* the missing set, and when no hash is in two bundles of the manifest no hash is
\* scheduled twice.
C23_PlanCoverage ==
    plan.done =>
        /\ Scheduled \cup plan.blocks = missing_blocks
        /\ DisjointBundles(new_build) => \A h \in missing_blocks : TimesScheduled(h) = 1

\* a plan over two disjoint bundles that schedules one of them with a part of its
\* members, leaves the other out, and has a single block
C23_Reached ==
    /\ plan.done
    /\ DisjointBundles(new_build)
    /\ Len(new_build.bundles) = 2
    /\ Len(plan.bundles) = 1
    /\ \E n \in 1..Len(new_build.bundles) :
         /\ new_build.bundles[n].k = plan.bundles[1].k
         /\ Len(plan.bundles[1].v) < Len(new_build.bundles[n].v)
    /\ plan.blocks # {}

\* a plan over disjoint bundles leaves a bundle out whose missing member goes as a
\* single block
C23_ReachedBelowHalf ==
    /\ plan.done
    /\ DisjointBundles(new_build)
    /\ \E h \in plan.blocks : h \in BundleHashes(new_build)

\* a plan over bundles that share a member schedules it twice
C23_TwiceWhenShared ==
    /\ plan.done
    /\ ~DisjointBundles(new_build)
    /\ \E h \in missing_blocks : TimesScheduled(h) = 2

(***************************************************************************)
(* Claims about the layout of the bundles.                                 *)
(***************************************************************************)
\* the bundle file of entry e in directory d is laid out as its member list says:
\* offsets from 0 by the running sum of the lengths, every length the length of the
\* block file of the member, and the bundle file the block files one after the other
LaidOut(d, e) ==
    /\ e.k \in DOMAIN d.bundles
    /\ \A i \in 1..Len(e.v) :
          /\ e.v[i].blockOffset = IF i = 1 THEN 0
                                  ELSE e.v[i - 1].blockOffset + e.v[i - 1].length
          /\ e.v[i].hash \in DOMAIN d.blocks
          /\ e.v[i].length = Len(d.blocks[e.v[i].hash])
          /\ SubSeq(d.bundles[e.k], e.v[i].blockOffset + 1,
                    e.v[i].blockOffset + e.v[i].length) = d.blocks[e.v[i].hash]
    /\ \A i \in 1..Len(e.v) : e.v[i].hash \in DOMAIN d.blocks
    /\ d.bundles[e.k] = Concat([i \in 1..Len(e.v) |-> d.blocks[e.v[i].hash]])

\* C24 (bundle layout): after a call of create_patch, every bundle of the manifest
\* it wrote, new or reused, has member 0 at blockOffset 0 and each next member at
\* the blockOffset plus the length of the one before, every length is the length of
\* the stored payload, and the bundle file is the payloads one after the other, so
\* that the slice of a member is the content of its block file.
C24_BundleLayout ==
    last.ok => \A n \in 1..Len(last.manifest.bundles) : LaidOut(disk, last.manifest.bundles[n])

\* C24, as far as the code keeps it: it holds of the first call of a process.
C24_BundleLayoutInFreshProcess ==
    (last.ok /\ last.fresh) =>
        \A n \in 1..Len(last.manifest.bundles) : LaidOut(disk, last.manifest.bundles[n])

\* the first call of a process has written, with compression, a bundle of several
\* members next to a reused one
C24_Reached ==
    /\ last.ok
    /\ last.fresh
    /\ last.compress
    /\ Len(last.prior.bundles) > 0
    /\ Len(last.manifest.bundles) > Len(last.formed)
    /\ \E n \in 1..Len(last.formed) : Len(last.formed[n].v) >= 2

(***************************************************************************)
(* Claims about the files named .DS_Store.                                 *)
(***************************************************************************)
\* the paths of the tree whose basename contains .DS_Store
DSStorePaths == {p \in TreeFiles : HasDSStore(p)}

\* a step leaves the file at path p in the tree and its changelog entry as it is
SkippedBy(p) ==
    /\ p \in tree.files => p \in tree'.files
    /\ (p \in cleaner.change_log) <=> (p \in cleaner'.change_log)

\* C25 (.DS_Store is skipped): no step of the cleaner deletes a file whose basename
\* contains .DS_Store, at any depth and listed in the manifest or not, and none
\* creates, updates or removes a changelog entry for it.
C25_DSStoreSkipped == [][\A p \in DSStorePaths : SkippedBy(p)]_vars

\* C25, as far as the code keeps it: it holds of the .DS_Store at the top of the
\* install directory and of those the manifest lists.
C25_DSStoreSkippedAtTopOrListed ==
    [][\A p \in DSStorePaths : (p = ".DS_Store" \/ p \in cleaner.files) => SkippedBy(p)]_vars

\* the cleaner has returned with no error: the top-level .DS_Store that the manifest
\* does not list is still there, the one in a sub-directory is gone
C25_Reached ==
    /\ cleaner.pc = "done"
    /\ ~cleaner.raised
    /\ ".DS_Store" \in tree.files \ cleaner.files
    /\ "d/.DS_Store" \notin tree.files
    /\ "d/f2" \in tree.files

(***************************************************************************)
(* Claims about errors on single files.                                    *)
(***************************************************************************)
\* the scan has ended, by a return or by an exception
ScanEnded == scanner.pc \in {"returned", "raised"}

\* a file of files_to_patch is one fastcdc raises on
SomeFileRaises ==
    \E i \in 1..Len(scanner.files_to_patch) : scanner.files_to_patch[i] \in scanner.unreadable

\* the blocks of the files of files_to_patch that can be read
BlocksOfReadable ==
    Scan(scanner.files_to_patch, Restrict(scanner.cwd, DOMAIN scanner.cwd \ scanner.unreadable))

\* C26 (errors on single files are passed over): when chunking a file raises during
\* the local scan, the scan still returns, with the blocks of the other files, and
\* the apply goes on.
C26_ScanBestEffort ==
    ScanEnded => (scanner.pc = "returned" /\ scanner.blocks = BlocksOfReadable)

\* C26, as far as the code keeps it: a scan in which no file raises returns the
\* blocks of the files found, and a scan in which a file raises ends with the
\* exception and returns nothing.
C26_ScanRaisesOnError ==
    ScanEnded =>
        IF SomeFileRaises THEN scanner.pc = "raised"
        ELSE scanner.pc = "returned" /\ scanner.blocks = BlocksOfReadable

\* a scan ended with the exception of one file after the blocks of another were read
C26_Reached ==
    /\ scanner.pc = "raised"
    /\ scanner.blocks # NoFiles
    /\ Cardinality(scanner.raised) = 1

(***************************************************************************)
(* Claims about the dictionary.                                            *)
(***************************************************************************)
\* writeBlockFiles was called with compress and has its dictionary
DictionaryChosen == trainer.pc = "idle" /\ trainer.calls > 0 /\ trainer.compress

\* the call trained a dictionary on the sample and wrote it to the dictionary path
TrainedAndWritten ==
    /\ trainer.trained
    /\ trainer.dict_data.exists
    /\ trainer.file = trainer.dict_data

\* the call loaded the dictionary of the file and left the file as it was
LoadedUnchanged ==
    /\ ~trainer.trained
    /\ trainer.dict_data = trainer.before
    /\ trainer.file = trainer.before

\* C27 (dictionary selection): with compression, a dictionary is trained and
\* written to the dictionary path exactly when no file is there or regen_dict is
\* asked for, and with regen_dict it is trained on all blocks; otherwise the file
\* is loaded and left unchanged.
C27_DictionarySelection ==
    DictionaryChosen =>
        IF ~trainer.before.exists \/ trainer.regenDict
        THEN /\ TrainedAndWritten
             /\ trainer.regenDict =>
                    trainer.dict_data.trained_on = trainer.uncompressed_block_data
        ELSE LoadedUnchanged

\* C27, as far as the code keeps it: a dictionary is trained and written exactly
\* when no file is at the dictionary path, on all collected blocks with regen_dict
\* and on at most Samples of them without; a file that is there is loaded and left
\* unchanged, with regen_dict too.
C27_DictionaryLoadedWhenPresent ==
    DictionaryChosen =>
        IF ~trainer.before.exists
        THEN /\ TrainedAndWritten
             /\ IF trainer.regenDict
                THEN trainer.dict_data.trained_on = trainer.uncompressed_block_data
                ELSE Len(trainer.dict_data.trained_on) <= Samples
        ELSE LoadedUnchanged

\* a call with regen_dict found a dictionary file and loaded it
C27_Reached ==
    /\ DictionaryChosen
    /\ trainer.regenDict
    /\ trainer.before = OldDict
    /\ LoadedUnchanged
    /\ Len(trainer.uncompressed_block_data) > Samples

(***************************************************************************)
(* Claims about the calls of one process.                                  *)
(***************************************************************************)
\* the call that has just ended gave what a call with its arguments on the output
\* directory as it was gives in a process that made no call before
AsInFreshProcess ==
    \E order \in WalkOrders(last'.dir) :
       \E r \in {CreatePatchAtLevel(FreshProcess, disk, TRUE, disk, last'.dir, order,
                                    last'.compress, last'.level)} :
          /\ last'.ok = r.ok
          /\ last'.manifest = r.manifest
          /\ disk' = r.disk

\* the manifest of the call lists only files of the call's source directory
OnlyFilesOfTheCall == DOMAIN last.manifest.files \subseteq DOMAIN last.dir

\* C28 (call isolation): in any sequence of create_patch calls of one process, each
\* call's result depends only on its arguments and the file system: it is the
\* result of the same call in a process without earlier calls, so its manifest
\* lists only files of its source directory and only bundles built in the call,
\* and a call on an empty directory raises whatever was called before.
C28_CallIsolation ==
    [][ncalls' = ncalls + 1 =>
          /\ AsInFreshProcess
          /\ last'.empty => ~last'.ok]_vars

\* C28, as far as the code keeps it: the first call of a process gives a manifest
\* with only the files of its source directory, and raises on an empty directory.
C28_FirstCallIsolated ==
    (ncalls > 0 /\ last.fresh) =>
        /\ last.ok => OnlyFilesOfTheCall
        /\ last.empty => ~last.ok

\* a later call of a process wrote a manifest with a file of an earlier call's
\* directory
C28_Reached == last.ok /\ ~last.fresh /\ ~OnlyFilesOfTheCall

\* a later call of a process on an empty directory went through
C28_ReachedOnEmpty == last.ok /\ ~last.fresh /\ last.empty

(***************************************************************************)
(* Claims about the create command.                                        *)
(***************************************************************************)
\* the bundle files of a directory are made of compressed block payloads: each is
\* the concatenation of frames
RECURSIVE IsFrames(_)
IsFrames(bytes) ==
    IF bytes = <<>> THEN TRUE
    ELSE /\ Len(bytes) >= 2
         /\ bytes[1] = 253
         /\ Len(bytes) >= bytes[2] + 2
         /\ IsFrames(SubSeq(bytes, bytes[2] + 3, Len(bytes)))

\* the block and bundle payloads of the directory were written compressed
PayloadsCompressed(d) ==
    /\ \A h \in DOMAIN d.blocks : IsFrame(d.blocks[h])
    /\ \A b \in DOMAIN d.bundles : IsFrames(d.bundles[b])

\* the block and bundle payloads of the directory were written raw
PayloadsRaw(d) ==
    /\ \A h \in DOMAIN d.blocks : Sha256(d.blocks[h]) = h
    /\ \A b \in DOMAIN d.bundles : ~IsFrames(d.bundles[b])

\* the version file holds the digest of the manifest file
VersionOfManifest(d) == d.version = Sha256Hex(JsonDumps(d.manifest))

\* C29 (manifest after the create command): the final patchData.json has
\* compression.enabled true exactly when the block and bundle payloads on disk were
\* written compressed, and the version file holds the SHA-256 of that manifest.
C29_ManifestConsistency ==
    (repo.via = "cli" /\ repo.disk.hasManifest) =>
        /\ repo.disk.manifest.compression.enabled = PayloadsCompressed(repo.disk)
        /\ ~repo.disk.manifest.compression.enabled => PayloadsRaw(repo.disk)
        /\ VersionOfManifest(repo.disk)

\* C29, as far as the code keeps it: the version file holds the SHA-256 of the
\* manifest; the manifest tells the compression of the payloads after create_patch
\* called as a function, and after the command when it does not compress.
C29_ManifestConsistencyWithoutCompress ==
    repo.disk.hasManifest =>
        /\ VersionOfManifest(repo.disk)
        /\ (repo.via = "api" \/ ~repo.compress) =>
              /\ repo.disk.manifest.compression.enabled = PayloadsCompressed(repo.disk)
              /\ ~repo.disk.manifest.compression.enabled => PayloadsRaw(repo.disk)

\* gluu create --compress left compressed payloads under a manifest that says
\* compression is off
C29_Reached ==
    /\ repo.via = "cli" /\ repo.compress /\ repo.disk.hasManifest
    /\ ~repo.disk.manifest.compression.enabled
    /\ PayloadsCompressed(repo.disk)
    /\ DOMAIN repo.disk.bundles # {}

(***************************************************************************)
(* Claims about the output directories.                                    *)
(***************************************************************************)
\* the names in bundles/ are the bundle ids of the manifest, and the names in
\* blocks/ the block hashes of the manifest's files
GarbageCollected(d) ==
    /\ DOMAIN d.bundles = DictKeys(d.manifest.bundles)
    /\ DOMAIN d.blocks = FileHashes(d.manifest)

\* C30 (garbage collection): after create completes, whatever the output
\* directories held before, the file names in bundles/ are exactly the bundle ids
\* of the written manifest and the file names in blocks/ exactly the distinct block
\* hashes that the manifest's files reference.
C30_GarbageCollected == (ncalls > 0 /\ last.ok) => GarbageCollected(disk)

\* C30, as far as the code keeps it: the output of the first create_patch call of a
\* process is garbage-collected, and bundles/ holds the bundles of the manifest
\* after every call.
C30_GarbageCollectedInFreshProcess ==
    (ncalls > 0 /\ last.ok) =>
        /\ DOMAIN disk.bundles = DictKeys(disk.manifest.bundles)
        /\ last.fresh => GarbageCollected(disk)

\* a later call of a process left a block file that no file of its manifest
\* references
C30_Reached ==
    /\ ncalls > 0 /\ last.ok /\ ~last.fresh
    /\ DOMAIN disk.blocks \ FileHashes(disk.manifest) # {}

\* a first call of a process deleted block and bundle files of an older patch
C30_ReachedCollecting ==
    /\ ncalls > 1 /\ last.ok /\ last.fresh /\ last.changed
    /\ FileHashes(last.prior) \ DOMAIN disk.blocks # {}
    /\ DictKeys(last.prior.bundles) \ DOMAIN disk.bundles # {}
    /\ GarbageCollected(disk)
====
